---- MODULE Spec2Model ----
(***************************************************************************)
(* A model of the hybrid-layout table engine of peloton-opt                *)
(* (src/backend/storage/data_table.cpp): the concurrent insert path of     *)
(* DataTable (GetTupleSlot, AddDefaultTileGroup, InsertTuple,              *)
(* InsertVersion, InsertEmptyVersion, InsertInIndexes,                     *)
(* InsertInSecondaryIndexes).                                              *)
(*                                                                         *)
(* Every thread runs one call at a time.  A step of a thread is one access *)
(* to shared state: a critical section of table_mutex, one atomic          *)
(* operation of the tile group header or the catalog manager, or one       *)
(* unsynchronised load or store of a table counter.                        *)
(***************************************************************************)
EXTENDS Integers, Sequences, FiniteSets, TLC

\* ------------------------------------------------------------------ bounds
\* number of threads that may run insert calls concurrently
NumThreads == 2
\* total number of insert calls started in one behaviour
MaxCalls == 3
\* the mixed workload: the number of concurrent calls of any kind that follow
\* its first call
MaxMixedCalls == 2
\* tuples_per_tilegroup handed to the DataTable constructor
TuplesPerTilegroup == 1
\* number of layout calls (RecordSample, UpdateDefaultPartition,
\* TransformTileGroup) started in one behaviour
MaxAdaptCalls == 3
\* number of calls of the optimizer's sampling interface (SampleRows,
\* MaterializeSample, ComputeTableCardinality, GetTableCardinality) started in
\* one behaviour
MaxOptimizerCalls == 4
\* most items of a group of Get operators in a memo
MaxItems == 3
\* most plans the client of a binding iterator takes
MaxYield == 7
\* most groups of a memo that exploration adds groups to
MaxGroups == 3
\* most GroupBindingIterator constructors in progress at once
MaxNesting == 2
\* most ExploreItem calls in one behaviour
MaxExplorations == 4
\* most columns of a table whose layout is computed
MaxColumns == 11
\* largest peloton_num_groups
MaxNumGroups == 3

\* --------------------------------------------------------- program constants
INVALID_OID == -1
\* the argument of clusterer.GetPartitioning in UpdateDefaultPartition
MaxTiles == 2
\* the cap of SampleRows on the number of rounds of random draws
MaxRounds == 10
INVALID_ITEMPOINTER == <<INVALID_OID, INVALID_OID>>
INVALID_TXN_ID == "INVALID_TXN_ID"
MAX_CID == "MAX_CID"
NULL == "NULL"
NoTuple == <<>>
\* the content of a cell no value was written to
UNSET == "UNSET"

LAYOUT_ROW == "LAYOUT_ROW"
LAYOUT_COLUMN == "LAYOUT_COLUMN"
LAYOUT_HYBRID == "LAYOUT_HYBRID"
\* the configured layout mode (peloton_layout_mode)
peloton_layout_mode == LAYOUT_ROW
\* the null pointer TransformTileGroup returns
NULLPTR == 0

INDEX_CONSTRAINT_TYPE_PRIMARY_KEY == "PRIMARY_KEY"
INDEX_CONSTRAINT_TYPE_UNIQUE == "UNIQUE"
INDEX_CONSTRAINT_TYPE_DEFAULT == "DEFAULT"

\* ------------------------------------------------------------ the test table
\* schema->AllowNull(column): column 1 is NOT NULL, column 2 is nullable
AllowNull == <<FALSE, TRUE>>
ColumnCount == Len(AllowNull)
\* the tuples the callers hand in: the first has NULL in the nullable column
\* only, the second has NULL in the NOT NULL column
Tuples == {<<"a", NULL>>, <<NULL, "b">>}
\* schema->GetType(column): column 1 is inlined, column 2 is a VARCHAR
VALUE_TYPE_INTEGER == "INTEGER"
VALUE_TYPE_VARCHAR == "VARCHAR"
VALUE_TYPE_VARBINARY == "VARBINARY"
ColumnTypes == <<VALUE_TYPE_INTEGER, VALUE_TYPE_VARCHAR>>
\* the tuples of the sampling workload: two values of the inlined column
SampleTuples == {<<"a", NULL>>, <<"c", NULL>>}
\* the indexes of the table, in the order of DataTable::indexes
IndexTypes == <<INDEX_CONSTRAINT_TYPE_PRIMARY_KEY, INDEX_CONSTRAINT_TYPE_UNIQUE,
                INDEX_CONSTRAINT_TYPE_DEFAULT>>
IndexedColumns == <<(<<1>>), (<<2>>), (<<2>>)>>
IndexCount == Len(IndexTypes)

Threads == 1..NumThreads

VARIABLES
    tile_groups,        \* DataTable::tile_groups, the sequence of tile group ids
    next_oid,           \* the catalog manager's oid counter
    locator,            \* the catalog manager's map: tile group id -> tile group object
    heap,               \* the tile group objects, by handle
    indexes,            \* per index, the set of <<key, location>> entries
    number_of_tuples,   \* DataTable::number_of_tuples
    dirty,              \* DataTable::dirty
    tuple_count_exact,  \* DataTable::tuple_count_exact
    th,                 \* per thread: position in its call and its locals
    returned,           \* history: the locations returned, in order of return
    last_call,          \* history: the call that finished last and its outcome
    ncalls,             \* history: number of calls started
    overlap,            \* history: some call started while another was running
    default_partition,  \* DataTable::default_partition, a column map
    samples,            \* DataTable::samples, the number of buffered access samples
    tr,                 \* the thread that runs TransformTileGroup: position and locals
    up,                 \* the thread that runs UpdateDefaultPartition: position and locals
    nadapt,             \* history: number of layout calls started
    samples_for_optimizer,  \* DataTable::samples_for_optimizer
    last_sample,        \* history: the last SampleRows call and what it returned
    sampled_tile_group_id,  \* DataTable::sampled_tile_group_id
    cardinality_map,    \* DataTable::cardinality_map: sample column -> count
    sample_mutex,       \* DataTable::sample_mutex is held
    sm,                 \* the optimizer's thread: position and locals of its call
    noptimizer,         \* history: number of sampling interface calls started
    groups,             \* Optimizer::groups, the memo: per group its items and explored flags
    rules,              \* Optimizer::rules
    gbi,                \* the GroupBindingIterator the client runs
    yielded,            \* history: the plans Next returned, as they were when returned
    ctors,              \* the GroupBindingIterator constructors in progress, innermost last
    explorations,       \* history: the <<group, item, rule>> of every ExploreItem call
    completed,          \* history: the groups a client's GroupBindingIterator constructor returned for
    layout,             \* a GetTileGroupLayout call: the table and settings it reads, and its result
    clustering          \* clustering_mutex, the samples buffer by sample identity, and the threads of RecordSample and UpdateDefaultPartition

vars == <<tile_groups, next_oid, locator, heap, indexes, number_of_tuples, dirty,
          tuple_count_exact, th, returned, last_call, ncalls,
          overlap, default_partition, samples, tr, up, nadapt,
          samples_for_optimizer, last_sample, sampled_tile_group_id,
          cardinality_map, sample_mutex, sm, noptimizer,
          groups, rules, gbi, yielded, ctors, explorations, completed,
          layout, clustering>>

adapt == <<default_partition, samples, tr, up, nadapt>>
sampler == <<samples_for_optimizer, last_sample, sampled_tile_group_id,
            cardinality_map, sample_mutex, sm, noptimizer>>
explorer == <<ctors, explorations, completed>>
binder == <<groups, rules, gbi, yielded, explorer>>
rest == <<adapt, sampler, binder>>

table == <<tile_groups, next_oid, locator, heap>>
counters == <<number_of_tuples, dirty, tuple_count_exact>>
history == <<returned, last_call, ncalls, overlap>>

Last(s) == s[Len(s)]

\* ------------------------------------------------------------- tile groups
LocateTileAndColumnOf(column_map, column) == column_map[column]

\* A column map sends a column (1..ColumnCount) to its position
\* <<tile offset, column offset in the tile>>, both counted from 0.
\* DataTable::GetTileGroupLayout: the column map of a layout type
GetTileGroupLayout(layout_type) ==
    CASE layout_type = LAYOUT_ROW -> [c \in 1..ColumnCount |-> <<0, c - 1>>]
      [] layout_type = LAYOUT_COLUMN -> [c \in 1..ColumnCount |-> <<c - 1, 0>>]
      [] layout_type = LAYOUT_HYBRID -> [c \in 1..ColumnCount |-> <<0, c - 1>>]

\* The tile schemas GetTileGroupWithLayout and TransformTileGroupSchema build
\* from a column map, as the set of positions they provide: the tiles the map
\* names become tiles 0, 1, ... in the order of their offsets, and the columns
\* of a tile become its columns 0, 1, ... in the order of their offsets
TileSchemas(column_map) ==
    LET tiles == {column_map[c][1] : c \in DOMAIN column_map}
        columns(tile) == {column_map[c][2] :
                             c \in {d \in DOMAIN column_map : column_map[d][1] = tile}}
        tile_rank(tile) == Cardinality({x \in tiles : x < tile})
        column_rank(pos) == Cardinality({x \in columns(pos[1]) : x < pos[2]})
    IN {<<tile_rank(column_map[c][1]), column_rank(column_map[c])>> :
            c \in DOMAIN column_map}

\* TileGroup::GetSchemaDifference: the fraction of the columns whose position
\* differs from the one in new_column_map, in units of 1 / (2 * ColumnCount)
GetSchemaDifference(tg, new_column_map) ==
    2 * Cardinality({c \in 1..ColumnCount :
                        LocateTileAndColumnOf(tg.column_map, c) # new_column_map[c]})

\* TileGroupFactory::GetTileGroup: a tile group of the given id, tile schemas,
\* column map and capacity, every slot unclaimed, every cell unset and every
\* header entry in the empty state
NewTileGroup(id, schemas, column_map, capacity) ==
    [tile_group_id |-> id,
     num_tuple_slots |-> capacity,
     next_tuple_slot |-> 0,
     column_map |-> column_map,
     tiles |-> [pos \in schemas |-> [s \in 0..(capacity - 1) |-> UNSET]],
     txn_id |-> [s \in 0..(capacity - 1) |-> INVALID_TXN_ID],
     begin_cid |-> [s \in 0..(capacity - 1) |-> MAX_CID]]

\* TileGroup::LocateTileAndColumn
LocateTileAndColumn(tg, column) == LocateTileAndColumnOf(tg.column_map, column)

\* Tile::GetValue on the tile that holds the column
GetValue(tg, slot, column) == tg.tiles[LocateTileAndColumn(tg, column)][slot]

\* the tuple a tile group holds at a slot, column by column
Row(tg, slot) == [c \in 1..ColumnCount |-> GetValue(tg, slot, c)]

\* TileGroup::GetNextTupleSlot
GetNextTupleSlot(tg) == tg.next_tuple_slot

\* TileGroup::GetAllocatedTupleCount
GetAllocatedTupleCount(tg) == tg.num_tuple_slots

\* faulty variant: the capacity test of the claim is off by one
ClaimedSlot_PastCapacity(tg) ==
    IF tg.next_tuple_slot > tg.num_tuple_slots THEN INVALID_OID
    ELSE tg.next_tuple_slot

\* TileGroupHeader::GetNextEmptyTupleSlot, the slot an atomic claim returns
ClaimedSlot(tg) ==
    IF tg.next_tuple_slot = tg.num_tuple_slots THEN INVALID_OID
    ELSE tg.next_tuple_slot

\* TileGroup::InsertTuple: claim the next slot in the header and copy the
\* tuple into the tiles at that slot; the tile group is unchanged when full
TileGroupInsertTuple(tg, tuple) ==
    IF ClaimedSlot(tg) = INVALID_OID THEN tg
    ELSE [tg EXCEPT
            !.next_tuple_slot = @ + 1,
            !.tiles = [pos \in DOMAIN tg.tiles |->
                         IF \E c \in 1..ColumnCount : LocateTileAndColumn(tg, c) = pos
                         THEN [tg.tiles[pos] EXCEPT
                                 ![ClaimedSlot(tg)] =
                                     tuple[CHOOSE c \in 1..ColumnCount :
                                               LocateTileAndColumn(tg, c) = pos]]
                         ELSE tg.tiles[pos]]]

\* catalog::Manager::AddTileGroup: install the object under the id
AddTileGroup(loc, id, handle) ==
    [x \in (DOMAIN loc) \cup {id} |-> IF x = id THEN handle ELSE loc[x]]

\* DataTable::GetTileGroupCount
GetTileGroupCount == Len(tile_groups)

\* DataTable::GetTileGroup, GetTileGroupById: the handle of the tile group at
\* an offset of tile_groups, resolved through the catalog
GetTileGroup(offset) == locator[tile_groups[offset + 1]]

\* ---------------------------------------------------------------- tuples
\* faulty variant: the test of AllowNull is inverted
CheckNulls_Inverted(tuple) ==
    \A c \in 1..ColumnCount : ~(tuple[c] = NULL /\ AllowNull[c] = TRUE)

\* DataTable::CheckNulls
CheckNulls(tuple) ==
    \A c \in 1..ColumnCount : ~(tuple[c] = NULL /\ AllowNull[c] = FALSE)

\* DataTable::CheckConstraints: TRUE, or the ConstraintException is thrown
CheckConstraints(tuple) == CheckNulls(tuple)

\* faulty variant: InsertEmptyVersion hands check_constraint = true as InsertVersion does
CheckConstraintArg_AlwaysTrue(op) == TRUE

\* the check_constraint argument each insert call hands to GetTupleSlot
CheckConstraintArg(op) ==
    CASE op = "InsertTuple" -> TRUE
      [] op = "InsertVersion" -> TRUE
      [] op = "InsertEmptyVersion" -> FALSE

\* Tuple::SetFromTuple: the key of a tuple on an index's columns
KeyOf(tuple, columns) == [i \in 1..Len(columns) |-> tuple[columns[i]]]

\* GetTileGroupWithLayout on the column map of the configured layout mode,
\* as AddDefaultTileGroup calls it
DefaultTileGroup(id) ==
    LET column_map == GetTileGroupLayout(peloton_layout_mode)
    IN NewTileGroup(id, TileSchemas(column_map), column_map, TuplesPerTilegroup)

\* ------------------------------------------------------------------ Init
NoCall == [op |-> "none", tuple |-> NoTuple, status |-> "none",
           location |-> INVALID_ITEMPOINTER]

Idle == [pc |-> "idle", op |-> "none", tuple |-> NoTuple,
         tile_group_offset |-> INVALID_OID, tile_group |-> INVALID_OID,
         tuple_slot |-> INVALID_OID, tile_group_id |-> INVALID_OID,
         new_id |-> INVALID_OID, added |-> INVALID_OID, tmp |-> 0,
         status |-> TRUE]

\* the thread of TransformTileGroup outside a call; arguments and result of
\* its last call stay readable
NoTransform == [pc |-> "idle", tile_group_offset |-> INVALID_OID, theta |-> 0,
                tile_group_id |-> INVALID_OID, tile_group |-> INVALID_OID,
                new_schema |-> {}, new_tile_group |-> INVALID_OID,
                column_itr |-> 0, result |-> INVALID_OID]

\* the thread of UpdateDefaultPartition outside a call
NoUpdate == [pc |-> "idle", partitioning |-> <<>>]

NoSample == [sample_size |-> 0, total_tuple_number |-> 0, result |-> INVALID_OID]

\* the optimizer's thread outside a call; arguments, locals and result of its
\* last call stay readable
NoSampler == [pc |-> "idle", op |-> "none", sample_size |-> 0,
              total_tuple_number |-> 0, row_id_set |-> {}, iter_count |-> 0,
              i |-> 0, random_row_id |-> INVALID_OID,
              tile_group_offset |-> INVALID_OID, tuple_id |-> INVALID_OID,
              column |-> INVALID_OID, result |-> INVALID_OID]

\* the state the DataTable constructor leaves: counters zero, no index
\* entries, and one empty tile group added by AddDefaultTileGroup
\* ------------------------------------------------------------ the optimizer's memo
\* a pattern: an operator type and the patterns of the children
Pattern(type, children) == [type |-> type, children |-> children]
\* the wildcard pattern
Leaf == Pattern("Leaf", <<>>)
\* std::unique_ptr<BindingIterator> current_iterator holding no iterator
NoItemIterator ==
    [null |-> TRUE, group_id |-> INVALID_OID, item_index |-> INVALID_OID,
     first |-> TRUE, has_next |-> FALSE,
     current_binding |-> [op |-> "none", group |-> INVALID_OID,
                          item |-> INVALID_OID, children |-> <<>>],
     children_bindings |-> <<>>, children_bindings_pos |-> <<>>]
\* no GroupBindingIterator constructed; pc is the client's position: "none",
\* "ready" (constructed, or Next returned), "true" / "false" (what the last
\* HasNext returned), "diverged" (a call that does not return);
\* items_at_construction is a history field the code does not keep: the
\* number of items the group held when the iterator was constructed
NoIterator ==
    [pc |-> "none", group_id |-> INVALID_OID, pattern |-> Leaf,
     current_item_index |-> 0, current_iterator |-> NoItemIterator,
     items_at_construction |-> 0]

\* no GetTileGroupLayout call: pc is "none", "called" (the arguments and the
\* settings are fixed) or "done" (column_map is what the call returned)
NoLayout ==
    [pc |-> "none", layout_type |-> LAYOUT_ROW, column_count |-> 0,
     table_name |-> "", adapt_table |-> FALSE, peloton_fsm |-> FALSE,
     peloton_num_groups |-> 0, peloton_projectivity |-> 0,
     hyadapt_column_ids |-> <<>>, column_map |-> <<>>]

\* no RecordSample or UpdateDefaultPartition call: mutex is the thread that
\* holds clustering_mutex (0: none), samples the buffer, recorded the number
\* of samples pushed, fed the history of clusterer.ProcessSample calls as
\* <<sample, call>>, started the number of calls started; per thread its
\* position, the number of its call, the samples it found and its loop index
NoClustering ==
    [mutex |-> 0, samples |-> <<>>, recorded |-> 0, fed |-> <<>>, started |-> 0,
     calls |-> [t \in Threads |-> [pc |-> "idle", call |-> 0, found |-> 0, i |-> 0]]]

InitTable ==
    /\ tile_groups = <<1>>
    /\ next_oid = 2
    /\ locator = (1 :> 1)
    /\ heap = <<DefaultTileGroup(1)>>
    /\ indexes = [i \in 1..IndexCount |-> {}]
    /\ number_of_tuples = 0
    /\ dirty = FALSE
    /\ tuple_count_exact = 0
    /\ th = [t \in Threads |-> Idle]
    /\ returned = <<>>
    /\ last_call = NoCall
    /\ ncalls = 0
    /\ overlap = FALSE
    /\ default_partition = [c \in 1..ColumnCount |-> <<0, c - 1>>]
    /\ samples = 0
    /\ tr = NoTransform
    /\ up = NoUpdate
    /\ nadapt = 0
    /\ samples_for_optimizer = <<>>
    /\ last_sample = NoSample
    /\ sampled_tile_group_id = INVALID_OID
    /\ cardinality_map = <<>>
    /\ sample_mutex = FALSE
    /\ sm = NoSampler
    /\ noptimizer = 0

Init ==
    /\ InitTable
    /\ groups = <<>>
    /\ rules = <<>>
    /\ gbi = NoIterator
    /\ yielded = <<>>
    /\ ctors = <<>>
    /\ explorations = <<>>
    /\ completed = {}
    /\ clustering = NoClustering
    /\ layout = NoLayout

\* ------------------------------------------------------- steps of a call
Running(t) == th[t].pc # "idle"

\* The entry of an insert call on a thread: GetTupleSlot(tuple,
\* check_constraint) checks the constraints first, and CheckConstraints
\* throws before the table is touched.
Begin(t, op, tuple, max_calls) ==
    /\ ~Running(t)
    /\ \A u \in Threads : u < t => Running(u)
    /\ ncalls < max_calls
    /\ ncalls' = ncalls + 1
    /\ overlap' = (overlap \/ \E u \in Threads : Running(u))
    /\ IF CheckConstraintArg(op) = TRUE /\ CheckConstraints(tuple) = FALSE
       THEN /\ th' = th
            /\ last_call' = [op |-> op, tuple |-> tuple,
                             status |-> "ConstraintException",
                             location |-> INVALID_ITEMPOINTER]
       ELSE /\ th' = [th EXCEPT ![t] = [Idle EXCEPT !.pc = "last",
                                                     !.op = op,
                                                     !.tuple = tuple]]
            /\ last_call' = last_call
    /\ UNCHANGED <<table, indexes, layout, clustering, counters, returned, rest>>

\* DataTable::InsertTuple is called
InsertTuple(t, max_calls) ==
    \E tuple \in Tuples : Begin(t, "InsertTuple", tuple, max_calls)

\* DataTable::InsertVersion is called
InsertVersion(t, max_calls) ==
    \E tuple \in Tuples : Begin(t, "InsertVersion", tuple, max_calls)

\* DataTable::InsertEmptyVersion is called
InsertEmptyVersion(t, max_calls) ==
    \E tuple \in Tuples : Begin(t, "InsertEmptyVersion", tuple, max_calls)

\* GetTupleSlot, the block under table_mutex: the offset of the last tile group
LastTileGroupOffset == GetTileGroupCount - 1

FigureOutLast(t) ==
    /\ th[t].pc = "last"
    /\ th' = [th EXCEPT ![t].pc = "get",
                        ![t].tile_group_offset = LastTileGroupOffset,
                        ![t].added = INVALID_OID]
    /\ UNCHANGED <<table, indexes, layout, clustering, counters, history, rest>>

\* GetTupleSlot: tile_group = GetTileGroup(tile_group_offset), outside the mutex
GrabTileGroup(t) ==
    /\ th[t].pc = "get"
    /\ th' = [th EXCEPT ![t].pc = "claim",
                        ![t].tile_group = GetTileGroup(th[t].tile_group_offset)]
    /\ UNCHANGED <<table, indexes, layout, clustering, counters, history, rest>>

\* faulty variant: a full tile group sends the thread round the loop without the call
\* of AddDefaultTileGroup
GrabSlot_NoAdd(t) ==
    /\ th[t].pc = "claim"
    /\ LET h == th[t].tile_group
           slot == ClaimedSlot(heap[h])
       IN /\ heap' = [heap EXCEPT ![h] = TileGroupInsertTuple(@, th[t].tuple)]
          /\ th' = [th EXCEPT ![t].tuple_slot = slot,
                              ![t].tile_group_id = heap[h].tile_group_id,
                              ![t].pc = IF slot = INVALID_OID THEN "last"
                                        ELSE "index"]
    /\ UNCHANGED <<tile_groups, next_oid, locator, indexes, layout, clustering, counters, history, rest>>

\* GetTupleSlot: tuple_slot = tile_group->InsertTuple(tuple) and
\* tile_group_id = tile_group->GetTileGroupId(); a full tile group sends the
\* thread to AddDefaultTileGroup
GrabSlot(t) ==
    /\ th[t].pc = "claim"
    /\ LET h == th[t].tile_group
           slot == ClaimedSlot(heap[h])
       IN /\ heap' = [heap EXCEPT ![h] = TileGroupInsertTuple(@, th[t].tuple)]
          /\ th' = [th EXCEPT ![t].tuple_slot = slot,
                              ![t].tile_group_id = heap[h].tile_group_id,
                              ![t].pc = IF slot = INVALID_OID THEN "alloc"
                                        ELSE "index"]
    /\ UNCHANGED <<tile_groups, next_oid, locator, indexes, layout, clustering, counters, history, rest>>

\* faulty variant: the catalog manager hands out the same oid again
AllocateTileGroup_SameOid(t) ==
    /\ th[t].pc = "alloc"
    /\ th' = [th EXCEPT ![t].pc = "add", ![t].new_id = next_oid - 1]
    /\ next_oid' = next_oid
    /\ UNCHANGED <<tile_groups, locator, heap, indexes, layout, clustering, counters, history, rest>>

\* AddDefaultTileGroup, before the lock: GetTileGroupWithLayout builds a tile
\* group under a fresh oid of the catalog manager
AllocateTileGroup(t) ==
    /\ th[t].pc = "alloc"
    /\ th' = [th EXCEPT ![t].pc = "add", ![t].new_id = next_oid]
    /\ next_oid' = next_oid + 1
    /\ UNCHANGED <<tile_groups, locator, heap, indexes, layout, clustering, counters, history, rest>>

\* faulty variant: the test for a free slot is dropped, a tile group is always added
SlotExistsInLast_Never == FALSE

\* faulty variant: the test for a free slot is off by one, a full tile group passes it
SlotExistsInLast_OffByOne ==
    LET last_tile_group == heap[GetTileGroup(GetTileGroupCount - 1)]
    IN GetNextTupleSlot(last_tile_group) <= GetAllocatedTupleCount(last_tile_group)

\* AddDefaultTileGroup (B): does the last tile group still have a free slot
SlotExistsInLast ==
    LET last_tile_group == heap[GetTileGroup(GetTileGroupCount - 1)]
    IN GetNextTupleSlot(last_tile_group) < GetAllocatedTupleCount(last_tile_group)

\* AddDefaultTileGroup, the block under table_mutex: append the new tile group
\* and record it in the catalog, unless the last tile group has a free slot;
\* added is the oid the call returns, which GetTupleSlot drops when the thread
\* goes round its loop again
AddDefaultTileGroup(t) ==
    /\ th[t].pc = "add"
    /\ IF tile_groups # <<>> /\ SlotExistsInLast
       THEN /\ UNCHANGED <<tile_groups, locator, heap>>
            /\ th' = [th EXCEPT ![t].pc = "last", ![t].new_id = INVALID_OID,
                                ![t].added = INVALID_OID]
       ELSE /\ tile_groups' = Append(tile_groups, th[t].new_id)
            /\ heap' = Append(heap, DefaultTileGroup(th[t].new_id))
            /\ locator' = AddTileGroup(locator, th[t].new_id, Len(heap) + 1)
            /\ th' = [th EXCEPT ![t].pc = "last", ![t].new_id = INVALID_OID,
                                ![t].added = th[t].new_id]
    /\ UNCHANGED <<next_oid, indexes, layout, clustering, counters, history, rest>>

\* faulty variant: the arguments of the ItemPointer are swapped
Location_Swapped(t) == <<th[t].tuple_slot, th[t].tile_group_id>>

\* faulty variant: the offset in tile_groups is taken for the tile group id
Location_Offset(t) == <<th[t].tile_group_offset, th[t].tuple_slot>>

\* GetTupleSlot: ItemPointer location(tile_group_id, tuple_slot)
Location(t) == <<th[t].tile_group_id, th[t].tuple_slot>>

\* faulty variant: the switch of InsertInSecondaryIndexes is in InsertInIndexes
InsertInIndexesTouches_SecondaryOnly(type) ==
    type # INDEX_CONSTRAINT_TYPE_PRIMARY_KEY /\ type # INDEX_CONSTRAINT_TYPE_UNIQUE

\* InsertInIndexes (B): does the index of this type get the entry
InsertInIndexesTouches(type) == TRUE

\* faulty variant: the switch on the index type is missing, as in InsertInIndexes
InsertInSecondaryIndexesTouches_All(type) == TRUE

\* InsertInSecondaryIndexes (B): does the index of this type get the entry
InsertInSecondaryIndexesTouches(type) ==
    type # INDEX_CONSTRAINT_TYPE_PRIMARY_KEY /\ type # INDEX_CONSTRAINT_TYPE_UNIQUE

\* the index pass of the three insert calls: InsertTuple runs
\* InsertInIndexes, the two version calls run InsertInSecondaryIndexes
Touches(op, type) ==
    IF op = "InsertTuple" THEN InsertInIndexesTouches(type)
    ELSE InsertInSecondaryIndexesTouches(type)

\* index->InsertEntry(key, location) on every index the call touches
UpdateIndexes(t) ==
    /\ th[t].pc = "index"
    /\ indexes' = [i \in 1..IndexCount |->
                     IF Touches(th[t].op, IndexTypes[i])
                     THEN indexes[i] \cup
                          {<<KeyOf(th[t].tuple, IndexedColumns[i]), Location(t)>>}
                     ELSE indexes[i]]
    /\ th' = [th EXCEPT ![t].pc = "num_load"]
    /\ UNCHANGED <<table, counters, history, rest, layout, clustering>>

\* index->ScanKey(key) on the i-th index: the locations entered under the key
ScanKey(i, key) == {e[2] : e \in {x \in indexes[i] : x[1] = key}}

\* the entry an insert call on thread t hands to the i-th index
IndexEntry(t, i) == <<KeyOf(th[t].tuple, IndexedColumns[i]), Location(t)>>

\* (B) Insert into index, when index->InsertEntry returns false on the i-th
\* index and assert(status) is compiled out (NDEBUG): the status is dropped,
\* the loop goes on over the other indexes and the index pass returns true
IndexRefusesRelease(t) ==
    /\ th[t].pc = "index"
    /\ \E i \in 1..IndexCount :
         /\ Touches(th[t].op, IndexTypes[i])
         /\ indexes' = [j \in 1..IndexCount |->
                          IF j # i /\ Touches(th[t].op, IndexTypes[j])
                          THEN indexes[j] \cup {IndexEntry(t, j)}
                          ELSE indexes[j]]
    /\ th' = [th EXCEPT ![t].pc = "num_load", ![t].status = FALSE]
    /\ UNCHANGED <<table, counters, history, rest, layout, clustering>>

\* (B) Insert into index, when index->InsertEntry returns false on the i-th
\* index and assert(status) is compiled in: the indexes visited before it
\* (the loop runs from the last index down) have the entry and the process
\* aborts
IndexRefusesDebug(t) ==
    /\ th[t].pc = "index"
    /\ \E i \in 1..IndexCount :
         /\ Touches(th[t].op, IndexTypes[i])
         /\ indexes' = [j \in 1..IndexCount |->
                          IF j > i /\ Touches(th[t].op, IndexTypes[j])
                          THEN indexes[j] \cup {IndexEntry(t, j)}
                          ELSE indexes[j]]
    /\ th' = [th EXCEPT ![t].pc = "abort", ![t].status = FALSE]
    /\ UNCHANGED <<table, counters, history, rest, layout, clustering>>

\* an assert has ended the process
Aborted == \E t \in Threads : th[t].pc = "abort"

\* IncreaseNumberOfTuplesBy(1): number_of_tuples += amount is a load ...
LoadNumberOfTuples(t) ==
    /\ th[t].pc = "num_load"
    /\ th' = [th EXCEPT ![t].pc = "num_store", ![t].tmp = number_of_tuples]
    /\ UNCHANGED <<table, indexes, layout, clustering, counters, history, rest>>

\* ... and a store, and dirty = true
StoreNumberOfTuples(t) ==
    /\ th[t].pc = "num_store"
    /\ number_of_tuples' = th[t].tmp + 1
    /\ dirty' = TRUE
    /\ th' = [th EXCEPT ![t].pc = "exact_load", ![t].tmp = 0]
    /\ UNCHANGED <<table, indexes, layout, clustering, tuple_count_exact, history, rest>>

\* tuple_count_exact++ is a load ...
LoadTupleCountExact(t) ==
    /\ th[t].pc = "exact_load"
    /\ th' = [th EXCEPT ![t].pc = "exact_store", ![t].tmp = tuple_count_exact]
    /\ UNCHANGED <<table, indexes, layout, clustering, counters, history, rest>>

\* faulty variant: the call does not count the tuple in tuple_count_exact
StoreTupleCountExact_NoCount(t) ==
    /\ th[t].pc = "exact_store"
    /\ tuple_count_exact' = tuple_count_exact
    /\ th' = [th EXCEPT ![t] = Idle]
    /\ returned' = Append(returned, Location(t))
    /\ last_call' = [op |-> th[t].op, tuple |-> th[t].tuple, status |-> "ok",
                     location |-> Location(t)]
    /\ UNCHANGED <<table, indexes, layout, clustering, number_of_tuples, dirty, ncalls, overlap, rest>>

\* ... and a store; then the call returns the location
StoreTupleCountExact(t) ==
    /\ th[t].pc = "exact_store"
    /\ tuple_count_exact' = th[t].tmp + 1
    /\ th' = [th EXCEPT ![t] = Idle]
    /\ returned' = Append(returned, Location(t))
    /\ last_call' = [op |-> th[t].op, tuple |-> th[t].tuple, status |-> "ok",
                     location |-> Location(t)]
    /\ UNCHANGED <<table, indexes, layout, clustering, number_of_tuples, dirty, ncalls, overlap, rest>>

Step(t) ==
    \/ FigureOutLast(t)
    \/ GrabTileGroup(t)
    \/ GrabSlot(t)
    \/ AllocateTileGroup(t)
    \/ AddDefaultTileGroup(t)
    \/ UpdateIndexes(t)
    \/ LoadNumberOfTuples(t)
    \/ StoreNumberOfTuples(t)
    \/ LoadTupleCountExact(t)
    \/ StoreTupleCountExact(t)

\* concurrent insert_tuple calls on one table
Next == \E t \in Threads : InsertTuple(t, MaxCalls) \/ Step(t)

Spec == Init /\ [][Next]_vars

\* the mixed workload starts with one insert_tuple call that runs alone
FirstCall(t) ==
    /\ ncalls = 0
    /\ \E tuple \in Tuples :
        /\ CheckNulls(tuple)
        /\ Begin(t, "InsertTuple", tuple, MaxMixedCalls)

FirstCallReturned == Len(returned) >= 1

\* concurrent insert_tuple, insert_version and insert_empty_version calls on
\* one table that holds the row of the first call
MixedNext ==
    \E t \in Threads :
        \/ FirstCall(t)
        \/ FirstCallReturned /\ InsertTuple(t, MaxMixedCalls + 1)
        \/ FirstCallReturned /\ InsertVersion(t, MaxMixedCalls + 1)
        \/ FirstCallReturned /\ InsertEmptyVersion(t, MaxMixedCalls + 1)
        \/ Step(t)

MixedSpec == Init /\ [][MixedNext]_vars

\* every thread that can take a step eventually takes one
FairSpec == Spec /\ \A t \in Threads : WF_vars(Step(t))

\* concurrent insert_tuple calls on a table whose indexes may refuse a key
RefuseNext ==
    /\ ~Aborted
    /\ \E t \in Threads :
          \/ InsertTuple(t, MaxCalls)
          \/ Step(t)
          \/ IndexRefusesRelease(t)
          \/ IndexRefusesDebug(t)

RefuseSpec == Init /\ [][RefuseNext]_vars

\* ------------------------------------------------- layout transformation
\* no thread is inside an insert call
Quiescent == \A t \in Threads : ~Running(t)

\* theta = 1.0 in the units of GetSchemaDifference
ThetaOne == 2 * ColumnCount

\* the thresholds callers hand to TransformTileGroup: 0.0, a value between
\* 0.0 and the smallest positive difference, 1.0, and a value above 1.0
Thetas == {0, 1, ThetaOne, ThetaOne + 1}

\* a column map that gives every column of the table one position of its
\* own, the tiles and the columns of each tile counted from 0 without gaps
IsColumnMap(m) ==
    /\ DOMAIN m = 1..ColumnCount
    /\ \A c, d \in DOMAIN m : c # d => m[c] # m[d]
    /\ TileSchemas(m) = {m[c] : c \in DOMAIN m}

\* clusterer.GetPartitioning(2): some column map of at most MaxTiles tiles
Partitionings ==
    {m \in [1..ColumnCount -> (0..(MaxTiles - 1)) \X (0..(ColumnCount - 1))] :
        IsColumnMap(m)}

\* the layout threads are all outside their calls
LayoutIdle == tr.pc = "idle" /\ up.pc = "idle"

\* TransformTileGroup is called: the test of the offset against
\* tile_groups.size() and the read of tile_groups[tile_group_offset]
TransformBegin(tile_group_offset, theta) ==
    /\ tr.pc = "idle"
    /\ nadapt < MaxAdaptCalls
    /\ nadapt' = nadapt + 1
    /\ IF tile_group_offset >= Len(tile_groups)
       THEN tr' = [NoTransform EXCEPT !.tile_group_offset = tile_group_offset,
                                      !.theta = theta,
                                      !.result = NULLPTR]
       ELSE tr' = [NoTransform EXCEPT !.pc = "get",
                                      !.tile_group_offset = tile_group_offset,
                                      !.theta = theta,
                                      !.tile_group_id =
                                          tile_groups[tile_group_offset + 1]]
    /\ UNCHANGED <<table, indexes, layout, clustering, counters, th, history, default_partition,
                   samples, up, sampler, binder>>

\* TransformTileGroup: tile_group = catalog_manager.GetTileGroup(tile_group_id)
TransformGet ==
    /\ tr.pc = "get"
    /\ tr' = [tr EXCEPT !.pc = "diff", !.tile_group = locator[tr.tile_group_id]]
    /\ UNCHANGED <<table, indexes, layout, clustering, counters, th, history, default_partition,
                   samples, up, nadapt, sampler, binder>>

\* a read of default_partition that meets the map while UpdateDefaultPartition
\* assigns it has no defined outcome
TransformUndefined == [tr EXCEPT !.pc = "undefined"]

\* faulty variant: the threshold test is the wrong way round
BelowThreshold_Inverted(diff, theta) == diff > theta

\* faulty variant: a difference equal to theta is below the threshold too
BelowThreshold_Inclusive(diff, theta) == diff <= theta

\* TransformTileGroup: if (diff < theta) return nullptr
BelowThreshold(diff, theta) == diff < theta

\* TransformTileGroup: diff = tile_group->GetSchemaDifference(default_partition)
\* and the threshold test
TransformDiff ==
    /\ tr.pc = "diff"
    /\ tr' = IF DOMAIN default_partition # 1..ColumnCount THEN TransformUndefined
             ELSE IF BelowThreshold(GetSchemaDifference(heap[tr.tile_group],
                                                        default_partition),
                                    tr.theta)
                  THEN [NoTransform EXCEPT
                          !.tile_group_offset = tr.tile_group_offset,
                          !.theta = tr.theta,
                          !.result = NULLPTR]
                  ELSE [tr EXCEPT !.pc = "schema"]
    /\ UNCHANGED <<table, indexes, layout, clustering, counters, th, history, default_partition,
                   samples, up, nadapt, sampler, binder>>

\* TransformTileGroup: new_schema = TransformTileGroupSchema(tile_group,
\* default_partition)
TransformSchema ==
    /\ tr.pc = "schema"
    /\ tr' = IF DOMAIN default_partition # 1..ColumnCount THEN TransformUndefined
             ELSE [tr EXCEPT !.pc = "alloc",
                             !.new_schema = TileSchemas(default_partition)]
    /\ UNCHANGED <<table, indexes, layout, clustering, counters, th, history, default_partition,
                   samples, up, nadapt, sampler, binder>>

\* faulty variant: the new tile group is entered in the catalog when it is
\* allocated, before it is filled
TransformAllocate_Publishes ==
    /\ tr.pc = "alloc"
    /\ DOMAIN default_partition = 1..ColumnCount
    /\ heap' = Append(heap,
                 NewTileGroup(heap[tr.tile_group].tile_group_id,
                              tr.new_schema, default_partition,
                              GetAllocatedTupleCount(heap[tr.tile_group])))
    /\ locator' = AddTileGroup(locator, tr.tile_group_id, Len(heap) + 1)
    /\ tr' = [tr EXCEPT !.pc = "copy", !.new_tile_group = Len(heap) + 1,
                        !.column_itr = 1, !.new_schema = {}]
    /\ UNCHANGED <<tile_groups, next_oid, indexes, layout, clustering, counters, th, history,
                   default_partition, samples, up, nadapt, sampler, binder>>

\* TransformTileGroup: new_tile_group = TileGroupFactory::GetTileGroup(...,
\* tile_group->GetTileGroupId(), ..., new_schema, default_partition,
\* tile_group->GetAllocatedTupleCount()), an object the catalog does not hold
TransformAllocate ==
    /\ tr.pc = "alloc"
    /\ IF DOMAIN default_partition # 1..ColumnCount
       THEN tr' = TransformUndefined /\ heap' = heap
       ELSE /\ heap' = Append(heap,
                         NewTileGroup(heap[tr.tile_group].tile_group_id,
                                      tr.new_schema, default_partition,
                                      GetAllocatedTupleCount(heap[tr.tile_group])))
            /\ tr' = [tr EXCEPT !.pc = "copy", !.new_tile_group = Len(heap) + 1,
                                !.column_itr = 1, !.new_schema = {}]
    /\ UNCHANGED <<tile_groups, next_oid, locator, indexes, layout, clustering, counters, th, history,
                   default_partition, samples, up, nadapt, sampler, binder>>

\* faulty variant: the column is read at the position of the next column
CopiedColumn_NextColumn(orig_tile_group, column_itr) ==
    orig_tile_group.tiles[LocateTileAndColumn(orig_tile_group,
                                              (column_itr % ColumnCount) + 1)]

\* SetTransformedTileGroup: the values orig_tile->GetValue(tuple_itr,
\* orig_tile_column_offset) of a column, for every allocated slot
CopiedColumn(orig_tile_group, column_itr) ==
    orig_tile_group.tiles[LocateTileAndColumn(orig_tile_group, column_itr)]

\* SetTransformedTileGroup: one round of the loop over the columns, which
\* copies the column onto the new tile group slot by slot
TransformCopyColumn ==
    /\ tr.pc = "copy"
    /\ LET orig_tile_group == heap[tr.tile_group]
           new_tile_group == heap[tr.new_tile_group]
           new_pos == LocateTileAndColumn(new_tile_group, tr.column_itr)
       IN IF new_pos \notin DOMAIN new_tile_group.tiles
          THEN tr' = TransformUndefined /\ heap' = heap
          ELSE /\ heap' = [heap EXCEPT ![tr.new_tile_group].tiles[new_pos] =
                              CopiedColumn(orig_tile_group, tr.column_itr)]
               /\ tr' = IF tr.column_itr = ColumnCount
                        THEN [tr EXCEPT !.pc = "header", !.column_itr = 0]
                        ELSE [tr EXCEPT !.column_itr = @ + 1]
    /\ UNCHANGED <<tile_groups, next_oid, locator, indexes, layout, clustering, counters, th, history,
                   default_partition, samples, up, nadapt, sampler, binder>>

\* SetTransformedTileGroup: *new_header = *header
TransformCopyHeader ==
    /\ tr.pc = "header"
    /\ heap' = [heap EXCEPT
                  ![tr.new_tile_group].next_tuple_slot =
                      heap[tr.tile_group].next_tuple_slot,
                  ![tr.new_tile_group].txn_id = heap[tr.tile_group].txn_id,
                  ![tr.new_tile_group].begin_cid = heap[tr.tile_group].begin_cid]
    /\ tr' = [tr EXCEPT !.pc = "publish"]
    /\ UNCHANGED <<tile_groups, next_oid, locator, indexes, layout, clustering, counters, th, history,
                   default_partition, samples, up, nadapt, sampler, binder>>

\* TransformTileGroup: catalog_manager.AddTileGroup(tile_group_id,
\* new_tile_group) and return new_tile_group.get()
TransformPublish ==
    /\ tr.pc = "publish"
    /\ locator' = AddTileGroup(locator, tr.tile_group_id, tr.new_tile_group)
    /\ tr' = [NoTransform EXCEPT !.tile_group_offset = tr.tile_group_offset,
                                 !.theta = tr.theta,
                                 !.result = tr.new_tile_group]
    /\ UNCHANGED <<tile_groups, next_oid, heap, indexes, layout, clustering, counters, th, history,
                   default_partition, samples, up, nadapt, sampler, binder>>

\* the steps of a TransformTileGroup call after its entry
TransformStep ==
    \/ TransformGet
    \/ TransformDiff
    \/ TransformSchema
    \/ TransformAllocate
    \/ TransformCopyColumn
    \/ TransformCopyHeader
    \/ TransformPublish

\* DataTable::RecordSample: samples.push_back(sample) under clustering_mutex
RecordSample ==
    /\ nadapt < MaxAdaptCalls
    /\ nadapt' = nadapt + 1
    /\ samples' = samples + 1
    /\ UNCHANGED <<table, indexes, layout, clustering, counters, th, history, default_partition, tr,
                   up, sampler, binder>>

\* UpdateDefaultPartition, the block under clustering_mutex: return when there
\* are no samples, else feed them to the clusterer and clear the buffer; the
\* partitioning is the one clusterer.GetPartitioning(2) is going to return
UpdateBegin ==
    /\ up.pc = "idle"
    /\ nadapt < MaxAdaptCalls
    /\ nadapt' = nadapt + 1
    /\ IF samples = 0
       THEN UNCHANGED <<samples, up>>
       ELSE /\ samples' = 0
            /\ \E partitioning \in Partitionings :
                 up' = [pc |-> "clear", partitioning |-> partitioning]
    /\ UNCHANGED <<table, indexes, layout, clustering, counters, th, history, default_partition, tr,
                   sampler, binder>>

\* default_partition = clusterer.GetPartitioning(2), outside every lock: the
\* move assignment of the map first drops the entries it holds ...
UpdateClear ==
    /\ up.pc = "clear"
    /\ default_partition' = <<>>
    /\ up' = [up EXCEPT !.pc = "install"]
    /\ UNCHANGED <<table, indexes, layout, clustering, counters, th, history, samples, tr, nadapt,
                   sampler, binder>>

\* ... and then takes over the entries of the new map
UpdateInstall ==
    /\ up.pc = "install"
    /\ default_partition' = up.partitioning
    /\ up' = NoUpdate
    /\ UNCHANGED <<table, indexes, layout, clustering, counters, th, history, samples, tr, nadapt,
                   sampler, binder>>

\* the steps of an UpdateDefaultPartition call after its entry
UpdateStep == UpdateClear \/ UpdateInstall

\* the tile group offsets callers hand to TransformTileGroup: every position
\* of tile_groups and the first one past its end
Offsets == 0..Len(tile_groups)

\* insert_tuple, record_sample, update_default_partition and
\* transform_tile_group calls on one table, one call at a time
TransformNext ==
    \/ \E t \in Threads :
          \/ LayoutIdle /\ Quiescent /\ InsertTuple(t, MaxMixedCalls)
          \/ Step(t)
    \/ /\ Quiescent /\ LayoutIdle
       /\ \E tile_group_offset \in Offsets, theta \in Thetas :
             TransformBegin(tile_group_offset, theta)
    \/ TransformStep
    \/ Quiescent /\ LayoutIdle /\ RecordSample
    \/ Quiescent /\ LayoutIdle /\ UpdateBegin
    \/ UpdateStep

TransformSpec == Init /\ [][TransformNext]_vars

\* insert_tuple calls, one at a time, that run concurrently with the
\* transform_tile_group calls of another thread, while default_partition is
\* updated only between calls
PublishNext ==
    \/ \E t \in Threads :
          \/ up.pc = "idle" /\ Quiescent /\ InsertTuple(t, MaxMixedCalls)
          \/ Step(t)
    \/ /\ up.pc = "idle"
       /\ \E tile_group_offset \in Offsets, theta \in Thetas :
             TransformBegin(tile_group_offset, theta)
    \/ TransformStep
    \/ Quiescent /\ LayoutIdle /\ RecordSample
    \/ Quiescent /\ LayoutIdle /\ UpdateBegin
    \/ UpdateStep

PublishSpec == Init /\ [][PublishNext]_vars

\* the same calls running concurrently: every thread of insert_tuple, the
\* thread of transform_tile_group and the thread of update_default_partition
AdaptNext ==
    \/ \E t \in Threads : InsertTuple(t, MaxMixedCalls) \/ Step(t)
    \/ \E tile_group_offset \in Offsets, theta \in Thetas :
          TransformBegin(tile_group_offset, theta)
    \/ TransformStep
    \/ RecordSample
    \/ UpdateBegin
    \/ UpdateStep

AdaptSpec == Init /\ [][AdaptNext]_vars

\* ---------------------------------------------------------------- sampling
\* the sample sizes SampleRows is called with
SampleSizes == 0..MaxCalls

\* a row id as SampleRows stores it: ItemPointer{row_id / tuples_per_tilegroup,
\* row_id % tuples_per_tilegroup}, the block a position in tile_groups
RowPointer(row_id) ==
    <<row_id \div TuplesPerTilegroup, row_id % TuplesPerTilegroup>>

\* the row ids of row_id_set below bound, in increasing order (the iteration
\* order of the std::set)
RECURSIVE OrderedRowIds(_, _)
OrderedRowIds(row_id_set, bound) ==
    IF bound = 0
    THEN <<>>
    ELSE IF (bound - 1) \in row_id_set
         THEN Append(OrderedRowIds(row_id_set, bound - 1), bound - 1)
         ELSE OrderedRowIds(row_id_set, bound - 1)

\* the row id of a stored sample pointer
RowIdOf(pointer) == pointer[1] * TuplesPerTilegroup + pointer[2]

\* the DataTable constructor: inline_column_map sends every column that is
\* neither VARCHAR nor VARBINARY to the next sample column
inline_column_map ==
    LET inlined == {c \in 1..ColumnCount :
                       ColumnTypes[c] \notin {VALUE_TYPE_VARCHAR, VALUE_TYPE_VARBINARY}}
    IN [c \in inlined |-> Cardinality({d \in inlined : d < c}) + 1]

\* BuildSampleSchema: every sample column is column 0 of a tile of its own
sample_column_map ==
    [sc \in {inline_column_map[c] : c \in DOMAIN inline_column_map} |-> <<sc - 1, 0>>]

\* DataTable::GetOptimizerSampleSize
GetOptimizerSampleSize == Len(samples_for_optimizer)

\* catalog::Manager::DropTileGroup: the id is no longer registered
DropTileGroup(loc, id) == [x \in (DOMAIN loc) \ {id} |-> loc[x]]

\* the columns the cardinality interface is called with: the table's columns
\* and one id that is no column of the table
CardinalityColumns == 1..(ColumnCount + 1)

\* faulty variant: the previous sample is kept when a new one is taken
PreviousSampleCleared_Kept(previous) == previous

\* SampleRows: samples_for_optimizer.clear() when it is not empty
PreviousSampleCleared(previous) == <<>>

\* faulty variant: the round cap lets one more round through
RoundsLeft_OneMore(iter_count) == iter_count <= MaxRounds

\* SampleRows: the round cap of the outer loop, iter_count < 10
RoundsLeft(iter_count) == iter_count < MaxRounds

\* SampleRows: the test of the outer loop
LoopContinues(size, sample_size, iter_count) ==
    size < sample_size /\ RoundsLeft(iter_count)

\* SampleRows: the tuple id handed to txn_mgr.IsVisible for a drawn row id
VisibilityArgument(random_row_id) == random_row_id

\* SampleRows is called: under sample_mutex the previous sample is cleared,
\* the sample tile group is dropped from the catalog, the cardinality map is
\* cleared and tuple_count_exact is read; a sample size that covers the table
\* takes the row ids 0..total-1 without a draw
SampleBegin(sample_size) ==
    LET total_tuple_number == tuple_count_exact
    IN /\ sm.pc = "idle"
       /\ ~sample_mutex
       /\ noptimizer < MaxOptimizerCalls
       /\ noptimizer' = noptimizer + 1
       /\ sample_mutex' = TRUE
       /\ samples_for_optimizer' = PreviousSampleCleared(samples_for_optimizer)
       /\ locator' = IF sampled_tile_group_id # INVALID_OID
                     THEN DropTileGroup(locator, sampled_tile_group_id)
                     ELSE locator
       /\ cardinality_map' = <<>>
       /\ sm' = [NoSampler EXCEPT
                   !.op = "SampleRows",
                   !.sample_size = sample_size,
                   !.total_tuple_number = total_tuple_number,
                   !.row_id_set = IF sample_size >= total_tuple_number
                                  THEN 0..(total_tuple_number - 1)
                                  ELSE {},
                   !.pc = IF sample_size >= total_tuple_number THEN "store"
                          ELSE IF LoopContinues(0, sample_size, 0) THEN "draw"
                          ELSE "store"]
       /\ UNCHANGED <<tile_groups, next_oid, heap, indexes, layout, clustering, counters, th, history,
                      adapt, binder, last_sample, sampled_tile_group_id>>

\* SampleRows, one pass of the inner loop: a row id is drawn, the header of
\* its tile group is fetched, the transaction manager is asked whether the
\* tuple is visible, and a visible row id enters row_id_set; the inner loop
\* ends when the set is full or sample_size draws were made, and a round that
\* ends counts in iter_count
SampleDraw ==
    /\ sm.pc = "draw"
    /\ \E random_row_id \in 0..(sm.total_tuple_number - 1), visible \in BOOLEAN :
          LET tile_group_offset == random_row_id \div TuplesPerTilegroup
              row_id_set == IF visible THEN sm.row_id_set \cup {random_row_id}
                            ELSE sm.row_id_set
              drawn == [sm EXCEPT !.random_row_id = random_row_id,
                                  !.tile_group_offset = tile_group_offset,
                                  !.tuple_id = VisibilityArgument(random_row_id),
                                  !.row_id_set = row_id_set]
          IN sm' = IF tile_group_offset >= GetTileGroupCount
                   THEN [drawn EXCEPT !.pc = "abort"]
                   ELSE IF Cardinality(row_id_set) >= sm.sample_size
                   THEN [drawn EXCEPT !.pc = "store",
                                      !.iter_count = sm.iter_count + 1]
                   ELSE IF sm.i + 1 < sm.sample_size
                   THEN [drawn EXCEPT !.i = sm.i + 1]
                   ELSE IF LoopContinues(Cardinality(row_id_set), sm.sample_size,
                                         sm.iter_count + 1)
                   THEN [drawn EXCEPT !.i = 0, !.iter_count = sm.iter_count + 1]
                   ELSE [drawn EXCEPT !.pc = "store",
                                      !.iter_count = sm.iter_count + 1]
    /\ UNCHANGED <<table, indexes, layout, clustering, counters, th, history, adapt, binder,
                   samples_for_optimizer, last_sample, sampled_tile_group_id,
                   cardinality_map, sample_mutex, noptimizer>>

\* SampleRows, the end: the row ids are pushed to samples_for_optimizer as
\* item pointers in increasing order, sample_mutex is released and the size
\* of row_id_set is returned
SampleStore ==
    /\ sm.pc = "store"
    /\ samples_for_optimizer' =
           LET ids == OrderedRowIds(sm.row_id_set, sm.total_tuple_number)
           IN samples_for_optimizer \o [k \in 1..Len(ids) |-> RowPointer(ids[k])]
    /\ sample_mutex' = FALSE
    /\ last_sample' = [sample_size |-> sm.sample_size,
                       total_tuple_number |-> sm.total_tuple_number,
                       result |-> Cardinality(sm.row_id_set)]
    /\ sm' = [sm EXCEPT !.pc = "idle", !.result = Cardinality(sm.row_id_set)]
    /\ UNCHANGED <<table, indexes, layout, clustering, counters, th, history, adapt, binder,
                   sampled_tile_group_id, cardinality_map, noptimizer>>

\* MaterializeSample is called: it returns when no sample is stored; else it
\* takes sample_mutex and drops the sample tile group sampled_tile_group_id
\* names from the catalog
MaterializeBegin ==
    /\ sm.pc = "idle"
    /\ noptimizer < MaxOptimizerCalls
    /\ noptimizer' = noptimizer + 1
    /\ IF GetOptimizerSampleSize = 0
       THEN /\ sm' = [NoSampler EXCEPT !.op = "MaterializeSample"]
            /\ UNCHANGED <<sample_mutex, locator>>
       ELSE /\ ~sample_mutex
            /\ sample_mutex' = TRUE
            /\ locator' = IF sampled_tile_group_id # INVALID_OID
                          THEN DropTileGroup(locator, sampled_tile_group_id)
                          ELSE locator
            /\ sm' = [NoSampler EXCEPT !.op = "MaterializeSample", !.pc = "build"]
    /\ UNCHANGED <<tile_groups, next_oid, heap, indexes, layout, clustering, counters, th, history,
                   adapt, binder, samples_for_optimizer, last_sample,
                   sampled_tile_group_id, cardinality_map>>

\* FillSampleTileGroup on the first k stored pointers: each claims the next
\* slot of the sample tile group and gets the values of the inlined columns
\* of the row at the pointer's slot in the tile group at the pointer's offset
RECURSIVE FillSampleTileGroup(_, _)
FillSampleTileGroup_FirstPointer(sample_tile_group, k) ==
    IF k = 0
    THEN sample_tile_group
    ELSE LET filled == FillSampleTileGroup(sample_tile_group, k - 1)
             item == samples_for_optimizer[1]
             tile_group == heap[GetTileGroup(item[1])]
             next_sample_row_id == ClaimedSlot(filled)
         IN [filled EXCEPT
               !.next_tuple_slot = @ + 1,
               !.tiles = [pos \in DOMAIN filled.tiles |->
                   [filled.tiles[pos] EXCEPT ![next_sample_row_id] =
                       GetValue(tile_group, item[2],
                                CHOOSE c \in DOMAIN inline_column_map :
                                    LocateTileAndColumn(filled, inline_column_map[c])
                                        = pos)]]]
FillSampleTileGroup(sample_tile_group, k) ==
    IF k = 0
    THEN sample_tile_group
    ELSE LET filled == FillSampleTileGroup(sample_tile_group, k - 1)
             item == samples_for_optimizer[k]
             tile_group == heap[GetTileGroup(item[1])]
             next_sample_row_id == ClaimedSlot(filled)
         IN [filled EXCEPT
               !.next_tuple_slot = @ + 1,
               !.tiles = [pos \in DOMAIN filled.tiles |->
                   [filled.tiles[pos] EXCEPT ![next_sample_row_id] =
                       GetValue(tile_group, item[2],
                                CHOOSE c \in DOMAIN inline_column_map :
                                    LocateTileAndColumn(filled, inline_column_map[c])
                                        = pos)]]]

\* BuildSampleTileGroup: a tile group under a fresh oid with the sample
\* schemas, the sample column map and the sample size as capacity
BuildSampleTileGroup(id) ==
    NewTileGroup(id, TileSchemas(sample_column_map), sample_column_map,
                 GetOptimizerSampleSize)

\* MaterializeSample, under sample_mutex: the sample tile group is built,
\* sampled_tile_group_id names it, the catalog registers it, it is filled
\* from the stored pointers, and sample_mutex is released
MaterializeBuild ==
    /\ sm.pc = "build"
    /\ IF GetOptimizerSampleSize = 0
       THEN /\ sm' = [sm EXCEPT !.pc = "abort"]
            /\ UNCHANGED <<next_oid, heap, locator, sampled_tile_group_id,
                           sample_mutex>>
       ELSE /\ next_oid' = next_oid + 1
            /\ sampled_tile_group_id' = next_oid
            /\ heap' = Append(heap,
                          FillSampleTileGroup(BuildSampleTileGroup(next_oid),
                                              GetOptimizerSampleSize))
            /\ locator' = AddTileGroup(locator, next_oid, Len(heap) + 1)
            /\ sample_mutex' = FALSE
            /\ sm' = [sm EXCEPT !.pc = "idle"]
    /\ UNCHANGED <<tile_groups, indexes, layout, clustering, counters, th, history, adapt, binder,
                   samples_for_optimizer, last_sample, cardinality_map,
                   noptimizer>>

\* ComputeSampleCardinality: the number of distinct values in the tile of the
\* sample column, over the first GetOptimizerSampleSize rows
ComputeSampleCardinality(sample_column_id) ==
    LET sample_tile_group == heap[locator[sampled_tile_group_id]]
    IN Cardinality({GetValue(sample_tile_group, row, sample_column_id) :
                        row \in 0..(GetOptimizerSampleSize - 1)})

\* ComputeTableCardinality is called: a column that is not sampled ends the
\* call; else ComputeSampleCardinality resolves the sample tile group, whose
\* absence fails the assertions of GetSampleTileGroup and
\* ComputeSampleCardinality, and stores the count in cardinality_map
ComputeTableCardinality(table_column_id) ==
    /\ sm.pc = "idle"
    /\ noptimizer < MaxOptimizerCalls
    /\ noptimizer' = noptimizer + 1
    /\ IF table_column_id \notin DOMAIN inline_column_map
       THEN /\ sm' = [NoSampler EXCEPT !.op = "ComputeTableCardinality",
                                       !.column = table_column_id]
            /\ UNCHANGED cardinality_map
       ELSE IF sampled_tile_group_id = INVALID_OID
                  \/ sampled_tile_group_id \notin DOMAIN locator
       THEN /\ sm' = [NoSampler EXCEPT !.op = "ComputeTableCardinality",
                                       !.column = table_column_id,
                                       !.pc = "abort"]
            /\ UNCHANGED cardinality_map
       ELSE /\ sm' = [NoSampler EXCEPT !.op = "ComputeTableCardinality",
                                       !.column = table_column_id]
            /\ cardinality_map' =
                   LET sc == inline_column_map[table_column_id]
                   IN [x \in (DOMAIN cardinality_map) \cup {sc} |->
                          IF x = sc THEN ComputeSampleCardinality(sc)
                          ELSE cardinality_map[x]]
    /\ UNCHANGED <<table, indexes, layout, clustering, counters, th, history, adapt, binder,
                   samples_for_optimizer, last_sample, sampled_tile_group_id,
                   sample_mutex>>

\* DataTable::GetSampleCardinality
GetSampleCardinality(sample_column_id) ==
    IF sample_column_id \notin DOMAIN cardinality_map THEN 0
    ELSE cardinality_map[sample_column_id]

\* faulty variant: a column that is not sampled is looked up as sample column 1
TableCardinality_FirstSampleColumn(table_column_id) ==
    IF table_column_id \notin DOMAIN inline_column_map
    THEN GetSampleCardinality(1)
    ELSE GetSampleCardinality(inline_column_map[table_column_id])

\* DataTable::GetTableCardinality, the value it returns
TableCardinality(table_column_id) ==
    IF table_column_id \notin DOMAIN inline_column_map THEN 0
    ELSE GetSampleCardinality(inline_column_map[table_column_id])

\* GetTableCardinality is called
GetTableCardinality(table_column_id) ==
    /\ sm.pc = "idle"
    /\ noptimizer < MaxOptimizerCalls
    /\ noptimizer' = noptimizer + 1
    /\ sm' = [NoSampler EXCEPT !.op = "GetTableCardinality",
                               !.column = table_column_id,
                               !.result = TableCardinality(table_column_id)]
    /\ UNCHANGED <<table, indexes, layout, clustering, counters, th, history, adapt, binder,
                   samples_for_optimizer, last_sample, sampled_tile_group_id,
                   cardinality_map, sample_mutex>>

\* a step of the optimizer's thread inside a call
SamplerStep == SampleDraw \/ SampleStore \/ MaterializeBuild

\* a call of the sampling interface starts
SamplerCall ==
    \/ \E sample_size \in SampleSizes : SampleBegin(sample_size)
    \/ MaterializeBegin
    \/ \E c \in CardinalityColumns : ComputeTableCardinality(c)
    \/ \E c \in CardinalityColumns : GetTableCardinality(c)

\* DataTable::InsertTuple is called with a tuple of the sampling workload
InsertRow(t, max_calls) ==
    \E tuple \in SampleTuples : Begin(t, "InsertTuple", tuple, max_calls)

\* insert_tuple calls of several threads, and the calls of the sampling
\* interface made while no insert runs
SampleNext ==
    \/ \E t \in Threads : sm.pc = "idle" /\ InsertRow(t, MaxMixedCalls)
    \/ \E t \in Threads : Step(t)
    \/ Quiescent /\ SamplerCall
    \/ SamplerStep

SampleSpec == Init /\ [][SampleNext]_vars

\* insert_tuple calls and calls of the sampling interface, one at a time
OptimizerNext ==
    \/ \E t \in Threads : sm.pc = "idle" /\ Quiescent /\ InsertRow(t, MaxMixedCalls)
    \/ \E t \in Threads : Step(t)
    \/ Quiescent /\ SamplerCall
    \/ SamplerStep

OptimizerSpec == Init /\ [][OptimizerNext]_vars

\* insert_tuple calls and SampleRows calls, one at a time
SampleRowsNext ==
    \/ \E t \in Threads : sm.pc = "idle" /\ Quiescent /\ InsertRow(t, MaxMixedCalls)
    \/ \E t \in Threads : Step(t)
    \/ Quiescent /\ \E sample_size \in SampleSizes : SampleBegin(sample_size)
    \/ SampleDraw
    \/ SampleStore

SampleRowsSpec == Init /\ [][SampleRowsNext]_vars

\* the thread that runs SampleRows is scheduled until its call ends
FairSampleRowsSpec == SampleRowsSpec /\ WF_vars(SampleDraw \/ SampleStore)

\* ------------------------------------------------------------ binding iterators
\* logical operators, with the groups of their children
LogicalGet == [type |-> "Get", args |-> <<>>]
LogicalFilter(child) == [type |-> "Filter", args |-> <<child>>]
LogicalInnerJoin(outer, inner) == [type |-> "InnerJoin", args |-> <<outer, inner>>]

\* ChildVisitor::GetChildren: the child groups of an operator
GetChildren_None(op) == <<>>
GetChildren(op) ==
    IF op.type = "Get" THEN <<>>
    ELSE IF op.type \in {"Project", "Filter", "Aggregate", "Limit"}
         THEN <<op.args[1]>>
    ELSE <<op.args[1], op.args[2]>>

\* a group: its operators and, in parallel, their explored flags
NewGroup(items) == [items |-> items, explored |-> [k \in 1..Len(items) |-> FALSE]]
\* groups[id], GroupID counting from 0
GroupAt(gs, id) == gs[id + 1]
GetOperators(gs, id) == GroupAt(gs, id).items
GetExploredFlags(gs, id) == GroupAt(gs, id).explored

\* the memos the iterators run on: group 0 is one of Tops, groups 1 and 2
\* hold Get items only, group 3 joins groups 1 and 2
Gets(n) == [k \in 1..n |-> LogicalGet]
Tops ==
    {<<>>, <<LogicalGet>>, <<LogicalInnerJoin(1, 2)>>, <<LogicalFilter(3)>>,
     <<LogicalFilter(3), LogicalInnerJoin(1, 2)>>,
     <<LogicalInnerJoin(1, 2), LogicalInnerJoin(2, 1)>>}
Memos ==
    {<<NewGroup(top), NewGroup(Gets(a)), NewGroup(Gets(b)),
       NewGroup(<<LogicalInnerJoin(1, 2)>>)>> :
        top \in Tops, a \in 0..MaxItems, b \in 0..MaxItems}
GroupIDs == 0..3
\* the patterns the client binds
Patterns ==
    {Leaf,
     Pattern("Get", <<>>),
     Pattern("InnerJoin", <<Leaf, Leaf>>),
     Pattern("InnerJoin", <<Pattern("Get", <<>>), Pattern("Get", <<>>)>>),
     Pattern("InnerJoin", <<Pattern("Get", <<>>), Leaf>>),
     Pattern("Filter", <<Leaf>>),
     Pattern("Filter", <<Pattern("InnerJoin", <<Leaf, Leaf>>)>>),
     Pattern("Filter", <<Pattern("InnerJoin", <<Pattern("Get", <<>>),
                                                Pattern("Get", <<>>)>>)>>)}

\* OpPlanNode(groups, id, item_index): a plan node of an item, without children
OpPlanNode(gs, id, item_index) ==
    [op |-> GetOperators(gs, id)[item_index + 1].type, group |-> id,
     item |-> item_index, children |-> <<>>]
\* LeafOperator::make(group_id), as a plan node
LeafOperator_FirstGroup(group_id) ==
    [op |-> "Leaf", group |-> 0, item |-> INVALID_OID, children |-> <<>>]
LeafOperator(group_id) ==
    [op |-> "Leaf", group |-> group_id, item |-> INVALID_OID, children |-> <<>>]
PushChild(node, child) == [node EXCEPT !.children = Append(@, child)]
\* PopChild, n times
PopChildren_Keep(node, n) == node
PopChildren(node, n) ==
    [node EXCEPT !.children = SubSeq(@, 1, Len(@) - n)]

\* ItemBindingIterator::HasNext: the iterator after the call and what the
\* call returned. The odometer pops one child per position from the right
\* until a position can advance, then pushes the children from there on.
ItemHasNext(it) ==
    IF it.has_next /\ it.first
    THEN [it |-> [it EXCEPT !.first = FALSE], ret |-> TRUE]
    ELSE IF it.has_next
    THEN LET size == Len(it.children_bindings_pos)
             advances == {i \in 0..(size - 1) :
                            it.children_bindings_pos[size - i] + 1
                                < Len(it.children_bindings[size - i])}
             i == IF advances = {} THEN size
                  ELSE CHOOSE a \in advances : \A b \in advances : a <= b
             pos == [k \in 1..size |->
                        IF k > size - i THEN 0
                        ELSE IF k = size - i THEN it.children_bindings_pos[k] + 1
                        ELSE it.children_bindings_pos[k]]
             popped == PopChildren(it.current_binding, IF i = size THEN size ELSE i + 1)
         IN IF i = size
            THEN [it |-> [it EXCEPT !.has_next = FALSE,
                                    !.children_bindings_pos = pos,
                                    !.current_binding = popped],
                  ret |-> FALSE]
            ELSE [it |-> [it EXCEPT
                            !.children_bindings_pos = pos,
                            !.current_binding =
                                [popped EXCEPT !.children =
                                    @ \o [j \in 1..(i + 1) |->
                                            it.children_bindings[size - i - 1 + j]
                                                [pos[size - i - 1 + j] + 1]]]],
                  ret |-> TRUE]
    ELSE [it |-> it, ret |-> FALSE]

\* ItemBindingIterator::Next: the binding itself, not a copy
ItemNext(it) == it.current_binding

RECURSIVE GroupBindings(_, _, _)
RECURSIVE DrainItem(_, _)
RECURSIVE DrainItems(_, _, _, _)
RECURSIVE GroupDiverges(_, _, _)
RECURSIVE GroupTouches(_, _, _)

\* while (iterator.HasNext()) push_back(iterator.Next()) on one item: every
\* pointer pushed is the item iterator's one current_binding, so after the
\* loop each of them shows the binding as the last HasNext left it
DrainItem(it, count) ==
    LET r == ItemHasNext(it)
    IN IF r.ret THEN DrainItem(r.it, count + 1)
       ELSE [k \in 1..count |-> ItemNext(r.it)]

\* the child positions an ItemBindingIterator constructor reaches: those
\* before which no child came without a binding
ReachedChildren(gs, child_groups, child_patterns) ==
    {k \in 1..Len(child_groups) :
        \A j \in 1..(k - 1) :
            GroupBindings(gs, child_groups[j], child_patterns[j]) # <<>>}

\* ItemBindingIterator::ItemBindingIterator
ItemBindingIterator(gs, id, item_index, pattern) ==
    LET item == GetOperators(gs, id)[item_index + 1]
        base == [NoItemIterator EXCEPT
                    !.null = FALSE, !.group_id = id, !.item_index = item_index,
                    !.current_binding = OpPlanNode(gs, id, item_index)]
        child_groups == GetChildren(item)
        child_patterns == pattern.children
        reached == ReachedChildren(gs, child_groups, child_patterns)
        bindings == [k \in 1..Len(child_groups) |->
                        IF k \in reached
                        THEN GroupBindings(gs, child_groups[k], child_patterns[k])
                        ELSE <<>>]
        pushed == {k \in reached : bindings[k] # <<>>}
    IN IF item.type # pattern.type THEN base
       ELSE IF Len(child_groups) # Len(child_patterns) THEN base
       ELSE [base EXCEPT
                !.children_bindings = bindings,
                !.children_bindings_pos = [k \in 1..Len(child_groups) |-> 0],
                !.current_binding.children =
                    [k \in 1..Cardinality(pushed) |-> bindings[k][1]],
                !.has_next = Cardinality(pushed) = Len(child_groups)]

\* the bindings of the items from item_index on, in item order
DrainItems(gs, id, pattern, item_index) ==
    IF item_index >= Len(GetOperators(gs, id)) THEN <<>>
    ELSE DrainItem(ItemBindingIterator(gs, id, item_index, pattern), 0)
             \o DrainItems(gs, id, pattern, item_index + 1)

\* a GroupBindingIterator on a child group run until HasNext is false, when
\* that happens: for a Leaf pattern HasNext is true at index 0 and Next moves
\* the index to the number of items
GroupBindings(gs, id, pattern) ==
    IF pattern.type = "Leaf" THEN <<LeafOperator(id)>>
    ELSE DrainItems(gs, id, pattern, 0)

\* the constructor of an item iterator never returns: the loop over one of
\* its children never sees HasNext false
ItemDiverges(gs, id, item_index, pattern) ==
    LET item == GetOperators(gs, id)[item_index + 1]
        child_groups == GetChildren(item)
    IN /\ item.type = pattern.type
       /\ Len(child_groups) = Len(pattern.children)
       /\ \E k \in ReachedChildren(gs, child_groups, pattern.children) :
              GroupDiverges(gs, child_groups[k], pattern.children[k])

\* with a Leaf pattern and no item, Next leaves the index at 0 and HasNext
\* stays true
GroupDiverges(gs, id, pattern) ==
    IF pattern.type = "Leaf" THEN Len(GetOperators(gs, id)) = 0
    ELSE \E i \in 0..(Len(GetOperators(gs, id)) - 1) :
            ItemDiverges(gs, id, i, pattern)

\* the groups for which an ItemBindingIterator constructor constructs a
\* GroupBindingIterator, at any depth
ItemTouches(gs, id, item_index, pattern) ==
    LET item == GetOperators(gs, id)[item_index + 1]
        child_groups == GetChildren(item)
    IN IF item.type = pattern.type /\ Len(child_groups) = Len(pattern.children)
       THEN UNION {GroupTouches(gs, child_groups[k], pattern.children[k]) :
                      k \in ReachedChildren(gs, child_groups, pattern.children)}
       ELSE {}

GroupTouches(gs, id, pattern) ==
    {id} \cup
    IF pattern.type = "Leaf" THEN {}
    ELSE UNION {ItemTouches(gs, id, i, pattern) :
                   i \in 0..(Len(GetOperators(gs, id)) - 1)}

\* the constructor loop of GroupBindingIterator for each group of a set, with
\* no rule registered: every item not yet explored is marked explored
SetExplored(gs, ids) ==
    [g \in 1..Len(gs) |->
        IF (g - 1) \in ids
        THEN [gs[g] EXCEPT !.explored = [k \in DOMAIN @ |-> TRUE]]
        ELSE gs[g]]

\* GroupBindingIterator::GroupBindingIterator
Construct(id, pattern) ==
    /\ gbi.pc = "none"
    /\ rules = <<>>
    /\ groups' = SetExplored(groups, {id})
    /\ gbi' = [NoIterator EXCEPT
                  !.pc = "ready", !.group_id = id, !.pattern = pattern,
                  !.items_at_construction = Len(GetOperators(groups, id))]
    /\ UNCHANGED <<table, indexes, layout, clustering, counters, th, history, adapt, sampler,
                   rules, yielded, explorer>>

RECURSIVE FindItem(_, _, _, _)
\* the loop of GroupBindingIterator::HasNext from an item index on: the first
\* item whose iterator has a binding, or the number of items
FindItem(gs, id, pattern, item_index) ==
    IF item_index >= Len(GetOperators(gs, id)) THEN item_index
    ELSE IF ItemHasNext(ItemBindingIterator(gs, id, item_index, pattern)).ret
         THEN item_index
    ELSE FindItem(gs, id, pattern, item_index + 1)

\* HasNext of a Leaf pattern
LeafHasNext(current_item_index) == current_item_index = 0

\* the item index at which the loop of HasNext starts
FirstItem(g) ==
    IF g.current_iterator.null THEN g.current_item_index
    ELSE IF ItemHasNext(g.current_iterator).ret THEN g.current_item_index
    ELSE g.current_item_index + 1

\* the items for which this HasNext constructs an ItemBindingIterator
ItemsConstructed(gs, g) ==
    IF g.pattern.type = "Leaf" THEN {}
    ELSE IF ~g.current_iterator.null /\ ItemHasNext(g.current_iterator).ret THEN {}
    ELSE {i \in FirstItem(g)..(Len(GetOperators(gs, g.group_id)) - 1) :
             i <= FindItem(gs, g.group_id, g.pattern, FirstItem(g))}

\* GroupBindingIterator::HasNext: the iterator after the call, pc telling
\* what the call returned
GroupHasNext(gs, g) ==
    IF g.pattern.type = "Leaf"
    THEN [g EXCEPT !.pc = IF LeafHasNext(g.current_item_index) THEN "true"
                          ELSE "false"]
    ELSE IF ~g.current_iterator.null /\ ItemHasNext(g.current_iterator).ret
    THEN [g EXCEPT !.current_iterator = ItemHasNext(g.current_iterator).it,
                   !.pc = "true"]
    ELSE LET found == FindItem(gs, g.group_id, g.pattern, FirstItem(g))
         IN IF found < Len(GetOperators(gs, g.group_id))
            THEN [g EXCEPT
                    !.current_item_index = found,
                    !.current_iterator =
                        ItemHasNext(ItemBindingIterator(gs, g.group_id, found,
                                                        g.pattern)).it,
                    !.pc = "true"]
            ELSE [g EXCEPT !.current_item_index = found,
                           !.current_iterator = NoItemIterator,
                           !.pc = "false"]

\* the client calls HasNext: before each Next and after HasNext returned
\* false, and for a Leaf pattern also again before Next
HasNext ==
    /\ \/ gbi.pc \in {"ready", "false"}
       \/ gbi.pc = "true" /\ gbi.pattern.type = "Leaf"
    /\ rules = <<>>
    /\ LET constructed == ItemsConstructed(groups, gbi)
           diverging == {i \in constructed :
                            ItemDiverges(groups, gbi.group_id, i, gbi.pattern)}
           touched == UNION {ItemTouches(groups, gbi.group_id, i, gbi.pattern) :
                                i \in constructed}
       IN /\ groups' = SetExplored(groups, touched)
          /\ gbi' = IF diverging # {}
                    THEN [gbi EXCEPT !.pc = "diverged"]
                    ELSE GroupHasNext(groups, gbi)
    /\ UNCHANGED <<table, indexes, layout, clustering, counters, th, history, adapt, sampler,
                   rules, yielded, explorer>>

\* GroupBindingIterator::Next, called after HasNext returned true
GroupNext ==
    /\ gbi.pc = "true"
    /\ Len(yielded) < MaxYield
    /\ IF gbi.pattern.type = "Leaf"
       THEN /\ gbi' = [gbi EXCEPT
                         !.current_item_index = Len(GetOperators(groups, gbi.group_id)),
                         !.pc = "ready"]
            /\ yielded' = Append(yielded, LeafOperator(gbi.group_id))
       ELSE /\ gbi' = [gbi EXCEPT !.pc = "ready"]
            /\ yielded' = Append(yielded, ItemNext(gbi.current_iterator))
    /\ UNCHANGED <<table, indexes, layout, clustering, counters, th, history, adapt, sampler,
                   groups, rules, explorer>>

BindingInit ==
    /\ InitTable
    /\ groups \in Memos
    /\ rules = <<>>
    /\ gbi = NoIterator
    /\ yielded = <<>>
    /\ ctors = <<>>
    /\ explorations = <<>>
    /\ completed = {}
    /\ clustering = NoClustering
    /\ layout = NoLayout

BindingNext ==
    \/ \E id \in GroupIDs, pattern \in Patterns : Construct(id, pattern)
    \/ HasNext
    \/ GroupNext

BindingSpec == BindingInit /\ [][BindingNext]_vars

\* exploration on behalf of another iterator appends an item to the group the
\* client's iterator was constructed on, between two of the client's calls
AppendLater ==
    /\ gbi.pc \in {"ready", "true", "false"}
    /\ Len(GetOperators(groups, gbi.group_id)) < MaxItems
    /\ groups' = [groups EXCEPT
                     ![gbi.group_id + 1].items = Append(@, LogicalGet),
                     ![gbi.group_id + 1].explored = Append(@, TRUE)]
    /\ UNCHANGED <<table, indexes, layout, clustering, counters, th, history, adapt, sampler,
                   rules, gbi, yielded, explorer>>

LateItemNext ==
    \/ \E id \in GroupIDs, pattern \in Patterns : Construct(id, pattern)
    \/ HasNext
    \/ GroupNext
    \/ AppendLater

LateItemSpec == BindingInit /\ [][LateItemNext]_vars

\* ------------------------------------- the samples buffer under its mutex
\* faulty variant: the lock is taken whoever holds it
CanLock_Always(mutex) == TRUE
\* std::lock_guard<std::mutex> lock(clustering_mutex) goes on when no thread
\* holds the mutex
CanLock(mutex) == mutex = 0

\* a thread of the clustering calls moves to a position
At(t, pc) == [clustering.calls EXCEPT ![t].pc = pc]

\* a thread calls RecordSample or UpdateDefaultPartition
ClusterCall(t, op) ==
    /\ clustering.calls[t].pc = "idle"
    /\ clustering.started < MaxAdaptCalls
    /\ clustering' = [clustering EXCEPT
                         !.started = @ + 1,
                         !.calls[t] = [pc |-> op, call |-> clustering.started + 1,
                                       found |-> 0, i |-> 0]]
    /\ UNCHANGED <<table, indexes, layout, counters, th, history, adapt, sampler, binder>>

\* the lock_guard of either call takes clustering_mutex
ClusterLock(t) ==
    /\ clustering.calls[t].pc \in {"RecordSample", "UpdateDefaultPartition"}
    /\ CanLock(clustering.mutex)
    /\ clustering' = [clustering EXCEPT
                         !.mutex = t,
                         !.calls[t].pc = IF @ = "RecordSample" THEN "push_back"
                                         ELSE "empty"]
    /\ UNCHANGED <<table, indexes, layout, counters, th, history, adapt, sampler, binder>>

\* RecordSample: samples.push_back(sample)
RecordPush(t) ==
    /\ clustering.calls[t].pc = "push_back"
    /\ clustering' = [clustering EXCEPT
                         !.samples = Append(@, clustering.recorded + 1),
                         !.recorded = @ + 1,
                         !.calls[t].pc = "unlock"]
    /\ UNCHANGED <<table, indexes, layout, counters, th, history, adapt, sampler, binder>>

\* the end of the locked block of either call: the lock_guard releases the
\* mutex; RecordSample returns, UpdateDefaultPartition goes on to the
\* assignment of default_partition
ClusterUnlock(t) ==
    /\ clustering.calls[t].pc = "unlock"
    /\ clustering' = [clustering EXCEPT
                         !.mutex = 0,
                         !.calls[t].pc = IF clustering.calls[t].found > 0
                                         THEN "assign" ELSE "idle"]
    /\ UNCHANGED <<table, indexes, layout, counters, th, history, adapt, sampler, binder>>

\* UpdateDefaultPartition: if (samples.empty()) return, which releases the
\* mutex
UpdateEmpty(t) ==
    /\ clustering.calls[t].pc = "empty"
    /\ IF clustering.samples = <<>>
       THEN clustering' = [clustering EXCEPT !.mutex = 0,
                                             !.calls[t].pc = "idle"]
       ELSE clustering' = [clustering EXCEPT
                              !.calls[t].pc = "ProcessSample",
                              !.calls[t].found = Len(clustering.samples),
                              !.calls[t].i = 1]
    /\ UNCHANGED <<table, indexes, layout, counters, th, history, adapt, sampler, binder>>

\* UpdateDefaultPartition: one pass of the loop over samples, and after the
\* last one samples.clear()
UpdateProcess(t) ==
    /\ clustering.calls[t].pc = "ProcessSample"
    /\ IF clustering.calls[t].i <= Len(clustering.samples)
       THEN clustering' = [clustering EXCEPT
                              !.fed = Append(@, <<clustering.samples[clustering.calls[t].i],
                                                  clustering.calls[t].call>>),
                              !.calls[t].i = @ + 1]
       ELSE clustering' = [clustering EXCEPT !.samples = <<>>,
                                             !.calls[t].pc = "unlock"]
    /\ UNCHANGED <<table, indexes, layout, counters, th, history, adapt, sampler, binder>>

\* UpdateDefaultPartition: default_partition = clusterer.GetPartitioning(2)
UpdateAssign(t) ==
    /\ clustering.calls[t].pc = "assign"
    /\ \E partitioning \in Partitionings : default_partition' = partitioning
    /\ clustering' = [clustering EXCEPT !.calls[t].pc = "idle"]
    /\ UNCHANGED <<table, indexes, layout, counters, th, history, samples, tr, up, nadapt,
                   sampler, binder>>

ClusterNext ==
    \E t \in Threads :
        \/ ClusterCall(t, "RecordSample")
        \/ ClusterCall(t, "UpdateDefaultPartition")
        \/ ClusterLock(t)
        \/ RecordPush(t)
        \/ ClusterUnlock(t)
        \/ UpdateEmpty(t)
        \/ UpdateProcess(t)
        \/ UpdateAssign(t)

ClusterSpec == Init /\ [][ClusterNext]_vars

\* ------------------------------------------------ layouts of any column count
\* columns, tiles and tile columns count from 0 here, as in the code
\* a std::map after a sequence of assignments column_map[key] = value
MapOf(assignments) ==
    [key \in {assignments[n][1] : n \in DOMAIN assignments} |->
        assignments[CHOOSE n \in DOMAIN assignments :
                        /\ assignments[n][1] = key
                        /\ \A m \in DOMAIN assignments :
                               assignments[m][1] = key => m <= n][2]]

\* hyadapt_column_ids[index], index counting from 0
HyadaptColumnId(index) == layout.hyadapt_column_ids[index + 1]

\* the split point of the default HYADAPT map; peloton_projectivity is a
\* fraction, kept in hundredths, and the product is truncated to an oid_t
SplitPoint(column_count) ==
    (layout.peloton_projectivity * (column_count - 1)) \div 100

\* DataTable::GetStaticColumnMap
GetStaticColumnMap(table_name, column_count) ==
    IF table_name = "HYADAPTTABLE"
    THEN IF layout.peloton_fsm
         THEN MapOf([n \in 1..column_count |-> <<n - 1, <<0, n - 1>>>>])
         ELSE IF layout.peloton_num_groups = 0
         THEN LET split_point == SplitPoint(column_count)
                  rest_column_count == (column_count - 1) - split_point
              IN MapOf(<<(<<0, <<0, 0>>>>)>>
                       \o [n \in 1..split_point |->
                              <<HyadaptColumnId(n - 1), <<0, n>>>>]
                       \o [n \in 1..rest_column_count |->
                              <<HyadaptColumnId(split_point + n - 1), <<1, n - 1>>>>])
         ELSE LET tile_column_count == column_count \div layout.peloton_num_groups
                  tile_id(column_id) == (column_id - 1) \div tile_column_count
                  tile_column_id(column_id) ==
                      IF tile_id(column_id) = 0
                      THEN column_id % tile_column_count
                      ELSE (column_id - 1) % tile_column_count
                  clamped(column_id) ==
                      IF tile_id(column_id) >= layout.peloton_num_groups
                      THEN layout.peloton_num_groups - 1
                      ELSE tile_id(column_id)
              IN MapOf(<<(<<0, <<0, 0>>>>)>>
                       \o [column_id \in 1..(column_count - 1) |->
                              <<HyadaptColumnId(column_id - 1),
                                <<clamped(column_id), tile_column_id(column_id)>>>>])
    ELSE IF table_name = "USERTABLE"
    THEN MapOf(<<(<<0, <<0, 0>>>>)>>
               \o [column_id \in 1..(column_count - 1) |->
                      <<column_id, <<1, column_id - 1>>>>])
    ELSE MapOf([n \in 1..column_count |-> <<n - 1, <<0, n - 1>>>>])

\* DataTable::GetTileGroupLayout for the table of the call: its column
\* count, its name and its adapt_table flag
GetTileGroupLayoutOf(layout_type) ==
    LET col_count == layout.column_count
        type == IF layout.adapt_table = FALSE THEN LAYOUT_ROW ELSE layout_type
    IN IF type = LAYOUT_ROW
       THEN MapOf([n \in 1..col_count |-> <<n - 1, <<0, n - 1>>>>])
       ELSE IF type = LAYOUT_COLUMN
       THEN MapOf([n \in 1..col_count |-> <<n - 1, <<n - 1, 0>>>>])
       ELSE IF col_count < 10
       THEN MapOf([n \in 1..col_count |-> <<n - 1, <<0, n - 1>>>>])
       ELSE GetStaticColumnMap(layout.table_name, col_count)

\* the orders of the columns 1..column_count-1 in hyadapt_column_ids
ColumnOrders(column_count) ==
    {[k \in 1..(column_count - 1) |-> k],
     [k \in 1..(column_count - 1) |-> column_count - k]}

\* the calls: a layout type, a table and the settings the call reads
LayoutCalls ==
    UNION {{[NoLayout EXCEPT !.pc = "called", !.layout_type = type,
                             !.column_count = n, !.table_name = name,
                             !.adapt_table = adapt_flag, !.peloton_fsm = fsm,
                             !.peloton_num_groups = num_groups,
                             !.peloton_projectivity = projectivity,
                             !.hyadapt_column_ids = ids] :
               type \in {LAYOUT_ROW, LAYOUT_COLUMN, LAYOUT_HYBRID},
               name \in {"HYADAPTTABLE", "USERTABLE", "TABLE"},
               adapt_flag \in BOOLEAN, fsm \in BOOLEAN,
               num_groups \in 0..MaxNumGroups,
               projectivity \in {0, 50, 100},
               ids \in ColumnOrders(n)} : n \in 1..MaxColumns}

\* the call runs and returns its column map
LayoutReturn ==
    /\ layout.pc = "called"
    /\ layout' = [layout EXCEPT
                     !.pc = "done",
                     !.column_map = GetTileGroupLayoutOf(layout.layout_type)]
    /\ UNCHANGED <<table, indexes, counters, th, history, adapt, sampler, binder,
                   clustering>>

LayoutInit ==
    /\ InitTable
    /\ groups = <<>>
    /\ rules = <<>>
    /\ gbi = NoIterator
    /\ yielded = <<>>
    /\ ctors = <<>>
    /\ explorations = <<>>
    /\ completed = {}
    /\ clustering = NoClustering
    /\ layout \in LayoutCalls

LayoutNext == LayoutReturn

LayoutSpec == LayoutInit /\ [][LayoutNext]_vars

\* ------------------------------------------------- a client's item iterator
\* the client runs an ItemBindingIterator itself: gbi.current_iterator is
\* that iterator, gbi.group_id, gbi.current_item_index and gbi.pattern are
\* the arguments it was constructed with, gbi.pc the client's position
Unary(type, child) == [type |-> type, args |-> <<child>>]
Binary(type, outer, inner) == [type |-> type, args |-> <<outer, inner>>]
ItemTops ==
    {<<LogicalGet>>, <<LogicalInnerJoin(1, 2)>>, <<LogicalFilter(3)>>,
     <<Binary("LeftJoin", 2, 1)>>, <<Unary("Project", 1)>>,
     <<Unary("Limit", 3), Binary("OuterJoin", 1, 1)>>}
ItemMemos ==
    {<<NewGroup(top), NewGroup(Gets(a)), NewGroup(Gets(b)),
       NewGroup(<<LogicalInnerJoin(1, 2)>>)>> :
        top \in ItemTops, a \in 0..MaxItems, b \in 0..MaxItems}
\* the patterns the client binds an item with, some of them with a number
\* of children their operator type does not have
ItemPatterns ==
    Patterns \cup
    {Pattern("LeftJoin", <<Pattern("Get", <<>>), Pattern("Get", <<>>)>>),
     Pattern("OuterJoin", <<Pattern("Get", <<>>), Leaf>>),
     Pattern("Project", <<Pattern("Get", <<>>)>>),
     Pattern("Limit", <<Pattern("InnerJoin", <<Pattern("Get", <<>>),
                                               Pattern("Get", <<>>)>>)>>),
     Pattern("Get", <<Leaf>>),
     Pattern("Filter", <<>>),
     Pattern("Project", <<Leaf, Leaf>>),
     Pattern("InnerJoin", <<>>),
     Pattern("InnerJoin", <<Leaf>>)}

\* the client constructs ItemBindingIterator(optimizer, id, item_index, pattern)
ItemConstruct(id, item_index, pattern) ==
    /\ gbi.pc = "none"
    /\ rules = <<>>
    /\ item_index < Len(GetOperators(groups, id))
    /\ groups' = SetExplored(groups, ItemTouches(groups, id, item_index, pattern))
    /\ gbi' = [NoIterator EXCEPT
                  !.pc = IF ItemDiverges(groups, id, item_index, pattern)
                         THEN "diverged" ELSE "ready",
                  !.group_id = id, !.pattern = pattern,
                  !.current_item_index = item_index,
                  !.current_iterator =
                      IF ItemDiverges(groups, id, item_index, pattern)
                      THEN NoItemIterator
                      ELSE ItemBindingIterator(groups, id, item_index, pattern)]
    /\ UNCHANGED <<table, indexes, layout, clustering, counters, th, history, adapt, sampler,
                   rules, yielded, explorer>>

\* the client calls has_next() on its item iterator
ItemCallHasNext ==
    /\ gbi.pc \in {"ready", "false"}
    /\ LET r == ItemHasNext(gbi.current_iterator)
       IN gbi' = [gbi EXCEPT !.current_iterator = r.it,
                             !.pc = IF r.ret THEN "true" ELSE "false"]
    /\ UNCHANGED <<table, indexes, layout, clustering, counters, th, history, adapt, sampler,
                   groups, rules, yielded, explorer>>

\* the client calls next() after has_next() returned true
ItemCallNext ==
    /\ gbi.pc = "true"
    /\ Len(yielded) < MaxYield
    /\ gbi' = [gbi EXCEPT !.pc = "ready"]
    /\ yielded' = Append(yielded, ItemNext(gbi.current_iterator))
    /\ UNCHANGED <<table, indexes, layout, clustering, counters, th, history, adapt, sampler,
                   groups, rules, explorer>>

ItemInit ==
    /\ InitTable
    /\ groups \in ItemMemos
    /\ rules = <<>>
    /\ gbi = NoIterator
    /\ yielded = <<>>
    /\ ctors = <<>>
    /\ explorations = <<>>
    /\ completed = {}
    /\ clustering = NoClustering
    /\ layout = NoLayout

ItemStep ==
    \/ \E id \in GroupIDs, item_index \in 0..(MaxItems - 1), pattern \in ItemPatterns :
          ItemConstruct(id, item_index, pattern)
    \/ ItemCallHasNext
    \/ ItemCallNext

ItemSpec == ItemInit /\ [][ItemStep]_vars

\* ------------------------------------------------------------ rule exploration
\* a constructor in progress: the group it was constructed for, the loop
\* index i, the rule being applied (0 between items), whether groups has
\* been reallocated since target_group was bound to groups[id], and (a
\* history field the code does not keep) the number of items the group held
\* when the constructor was entered
Frame(id) == [group_id |-> id, i |-> 0, rule |-> 0, dangling |-> FALSE,
              items_at_entry |-> Len(GetOperators(groups, id))]
Top == ctors[Len(ctors)]
ReplaceTop(frame) == [ctors EXCEPT ![Len(ctors)] = frame]
Pop == SubSeq(ctors, 1, Len(ctors) - 1)

\* the groups a client's constructor has returned for, after a step of the
\* constructor's loop: the client's constructor is the outermost one
Returned ==
    IF ctors' = <<>> THEN completed \union {ctors[1].group_id}
    ELSE completed

\* Group::set_explored(i) on groups[id]
set_explored(gs, id, i) == [gs EXCEPT ![id + 1].explored[i + 1] = TRUE]

\* the client constructs a GroupBindingIterator: the constructor is entered
ExploreConstruct(id) ==
    /\ ctors = <<>>
    /\ ctors' = <<Frame(id)>>
    /\ UNCHANGED <<table, indexes, layout, clustering, counters, th, history, adapt, sampler,
                   groups, rules, gbi, yielded, explorations, completed>>

\* one pass of the constructor's loop up to its first ExploreItem call, with
\* target_group still a reference to groups[id]
CtorLoop ==
    /\ ctors # <<>>
    /\ Top.rule = 0
    /\ ~Top.dangling
    /\ IF Top.i >= Len(GetOperators(groups, Top.group_id))
       THEN /\ ctors' = Pop
            /\ UNCHANGED <<groups, explorations>>
       ELSE IF GetExploredFlags(groups, Top.group_id)[Top.i + 1]
       THEN /\ ctors' = ReplaceTop([Top EXCEPT !.i = @ + 1])
            /\ UNCHANGED <<groups, explorations>>
       ELSE /\ groups' = set_explored(groups, Top.group_id, Top.i)
            /\ IF rules = <<>>
               THEN /\ ctors' = ReplaceTop([Top EXCEPT !.i = @ + 1])
                    /\ UNCHANGED explorations
               ELSE /\ ctors' = ReplaceTop([Top EXCEPT !.rule = 1])
                    /\ explorations' =
                           Append(explorations, <<Top.group_id, Top.i, rules[1]>>)
    /\ Len(explorations') <= MaxExplorations
    /\ completed' = Returned
    /\ UNCHANGED <<table, indexes, layout, clustering, counters, th, history, adapt, sampler,
                   rules, gbi, yielded>>

\* the same pass after groups has been reallocated: target_group,
\* target_group_items and target_group_explored refer to freed storage, so
\* the size and the flag the loop reads are whatever that storage holds, and
\* set_explored writes into it, not into the group
CtorLoopDangling ==
    /\ ctors # <<>>
    /\ Top.rule = 0
    /\ Top.dangling
    /\ \E continues \in BOOLEAN, flag \in BOOLEAN :
          IF ~continues \/ Top.i >= Len(GetOperators(groups, Top.group_id))
          THEN /\ ctors' = Pop
               /\ UNCHANGED explorations
          ELSE IF flag \/ rules = <<>>
          THEN /\ ctors' = ReplaceTop([Top EXCEPT !.i = @ + 1])
               /\ UNCHANGED explorations
          ELSE /\ ctors' = ReplaceTop([Top EXCEPT !.rule = 1])
               /\ explorations' =
                      Append(explorations, <<Top.group_id, Top.i, rules[1]>>)
    /\ Len(explorations') <= MaxExplorations
    /\ completed' = Returned
    /\ UNCHANGED <<table, indexes, layout, clustering, counters, th, history, adapt, sampler,
                   groups, rules, gbi, yielded>>

\* ExploreItem appends an item to the group being explored
ExploreAppendItem ==
    /\ ctors # <<>>
    /\ Top.rule # 0
    /\ Len(GetOperators(groups, Top.group_id)) < MaxItems
    /\ groups' = [groups EXCEPT
                     ![Top.group_id + 1].items = Append(@, LogicalGet),
                     ![Top.group_id + 1].explored = Append(@, FALSE)]
    /\ UNCHANGED <<table, indexes, layout, clustering, counters, th, history, adapt, sampler,
                   rules, gbi, yielded, explorer>>

\* ExploreItem creates a group: groups grows by one element, and when the
\* vector has no spare capacity its elements move to new storage, which
\* leaves the group references of all constructors in progress dangling
ExploreCreateGroup ==
    /\ ctors # <<>>
    /\ Top.rule # 0
    /\ Len(groups) < MaxGroups
    /\ groups' = Append(groups, NewGroup(<<LogicalGet>>))
    /\ \E reallocated \in BOOLEAN :
          ctors' = [k \in 1..Len(ctors) |->
                       [ctors[k] EXCEPT !.dangling = @ \/ reallocated]]
    /\ UNCHANGED <<table, indexes, layout, clustering, counters, th, history, adapt, sampler,
                   rules, gbi, yielded, explorations, completed>>

\* ExploreItem binds a pattern: a GroupBindingIterator is constructed on a
\* group while the item is being explored
ExploreNested(id) ==
    /\ ctors # <<>>
    /\ Top.rule # 0
    /\ Len(ctors) < MaxNesting
    /\ id \in 0..(Len(groups) - 1)
    /\ ctors' = Append(ctors, Frame(id))
    /\ UNCHANGED <<table, indexes, layout, clustering, counters, th, history, adapt, sampler,
                   groups, rules, gbi, yielded, explorations, completed>>

\* ExploreItem returns: the next rule is applied to the item, or the loop
\* moves to the next item
ExploreReturn ==
    /\ ctors # <<>>
    /\ Top.rule # 0
    /\ IF Top.rule < Len(rules)
       THEN /\ ctors' = ReplaceTop([Top EXCEPT !.rule = @ + 1])
            /\ explorations' =
                   Append(explorations,
                          <<Top.group_id, Top.i, rules[Top.rule + 1]>>)
       ELSE /\ ctors' = ReplaceTop([Top EXCEPT !.rule = 0, !.i = @ + 1])
            /\ UNCHANGED explorations
    /\ Len(explorations') <= MaxExplorations
    /\ UNCHANGED <<table, indexes, layout, clustering, counters, th, history, adapt, sampler,
                   groups, rules, gbi, yielded, completed>>

ExploreInit ==
    /\ InitTable
    /\ groups \in {<<NewGroup(Gets(a)), NewGroup(Gets(b))>> :
                      a \in 1..(MaxItems - 1), b \in 1..(MaxItems - 1)}
    /\ rules \in {<<"r1">>, <<"r1", "r2">>}
    /\ gbi = NoIterator
    /\ yielded = <<>>
    /\ ctors = <<>>
    /\ explorations = <<>>
    /\ completed = {}
    /\ clustering = NoClustering
    /\ layout = NoLayout

ExploreNext ==
    \/ \E id \in 0..(Len(groups) - 1) : ExploreConstruct(id)
    \/ CtorLoop
    \/ CtorLoopDangling
    \/ ExploreAppendItem
    \/ ExploreCreateGroup
    \/ \E id \in 0..(MaxGroups - 1) : ExploreNested(id)
    \/ ExploreReturn

ExploreSpec == ExploreInit /\ [][ExploreNext]_vars

\* ================================================================ claims
\* the tile group object the catalog holds for the i-th entry of tile_groups
TileGroupAt(i) == heap[locator[tile_groups[i]]]

RECURSIVE SumNextSlot(_)
SumNextSlot(n) ==
    IF n = 0 THEN 0 ELSE GetNextTupleSlot(TileGroupAt(n)) + SumNextSlot(n - 1)

\* sum of next_slot over the tile groups of the table
TotalNextSlot == SumNextSlot(Len(tile_groups))

\* a header entry in the empty state: txn_id = INVALID and begin_cid = INF
SlotEmpty(tg, slot) ==
    tg.txn_id[slot] = INVALID_TXN_ID /\ tg.begin_cid[slot] = MAX_CID

C3_NextSlotBounded ==
    \A h \in DOMAIN heap : heap[h].next_tuple_slot <= heap[h].num_tuple_slots

\* the step of a slot claim on a tile group with next_slot = capacity returns
\* no slot and changes no tile group
C3_ClaimOnFull ==
    \A t \in Threads :
        (/\ th[t].pc = "claim"
         /\ th'[t].pc # "claim"
         /\ heap[th[t].tile_group].next_tuple_slot
                = heap[th[t].tile_group].num_tuple_slots)
        => (th'[t].tuple_slot = INVALID_OID /\ heap' = heap)

\* C3: for every tile group next_slot <= capacity in every reachable state,
\* and a slot claim on a tile group with next_slot = capacity returns no slot
\* and leaves next_slot unchanged, also when several threads claim.
C3_FullStaysFull ==
    [][C3_NextSlotBounded /\ C3_NextSlotBounded' /\ C3_ClaimOnFull]_vars

\* C3 witness: a thread has just failed to claim a slot of a full tile group
\* on which another thread is about to fail as well.
C3_Witness ==
    \E t, u \in Threads :
        /\ t # u
        /\ th[t].pc = "alloc"
        /\ th[u].pc = "claim"
        /\ th[u].tile_group = th[t].tile_group
        /\ heap[th[u].tile_group].next_tuple_slot
               = heap[th[u].tile_group].num_tuple_slots

C5_ClaimsInLast ==
    [][\A t \in Threads :
          (th[t].pc = "claim" /\ th'[t].pc = "index")
          => th[t].tile_group = locator[Last(tile_groups)]]_vars

\* C5 witness: a version call has claimed a slot in a tile group added after
\* construction while another call runs.
C5_Witness ==
    \E t, u \in Threads :
        /\ t # u
        /\ th[t].pc = "index"
        /\ th[t].op # "InsertTuple"
        /\ th[t].tile_group_id # tile_groups[1]
        /\ Running(u)

\* every tile group that is not last in tile_groups is full
C6_NonLastFull ==
    \A g \in 1..(Len(tile_groups) - 1) :
        TileGroupAt(g).next_tuple_slot = TileGroupAt(g).num_tuple_slots

\* the locked block of add_default_tile_group: with a free slot in the last
\* tile group it returns INVALID_OID and changes nothing, otherwise it appends
\* its tile group and records it in the catalog
C6_AddStep ==
    \A t \in Threads :
        (th[t].pc = "add" /\ th'[t].pc # "add") =>
            IF TileGroupAt(Len(tile_groups)).next_tuple_slot
                   < TileGroupAt(Len(tile_groups)).num_tuple_slots
            THEN /\ tile_groups' = tile_groups /\ locator' = locator /\ heap' = heap
                 /\ th'[t].added = INVALID_OID
            ELSE /\ tile_groups' = Append(tile_groups, th[t].new_id)
                 /\ th[t].new_id \notin DOMAIN locator
                 /\ DOMAIN locator' = DOMAIN locator \cup {th[t].new_id}
                 /\ th'[t].added = th[t].new_id

\* C6: add_default_tile_group appends a tile group only when the last tile
\* group has no free slot, and otherwise returns INVALID_OID and leaves
\* tile_groups and the catalog unchanged; so one tile group is appended per
\* full tile group, and every tile group that is not last in tile_groups is
\* full.
C6_AppendOnlyWhenFull ==
    [][/\ C6_AddStep
       /\ C6_NonLastFull'
       /\ (tile_groups' # tile_groups =>
              \E t \in Threads : th[t].pc = "add" /\ th'[t].pc # "add")]_vars

\* C6 witness: two threads found the last tile group full, one has appended a
\* tile group and the other is about to give its own up.
C6_Witness ==
    \E t \in Threads :
        /\ th[t].pc = "add"
        /\ Len(tile_groups) >= 2
        /\ TileGroupAt(Len(tile_groups)).next_tuple_slot
               < TileGroupAt(Len(tile_groups)).num_tuple_slots

\* C7: with finitely many concurrent insert_tuple calls and every thread
\* scheduled fairly, each call leaves the claim/add-tile-group loop of
\* GetTupleSlot and returns, and what it returns is a valid ItemPointer.
C7_InsertReturns ==
    /\ \A t \in Threads : Running(t) ~> ~Running(t)
    /\ [](\A i \in 1..Len(returned) :
             returned[i][1] # INVALID_OID /\ returned[i][2] # INVALID_OID)

\* C7 witness: a call that ran concurrently with others has gone round the
\* loop and claimed a slot in a tile group added after construction.
C7_Witness ==
    \E t \in Threads :
        /\ overlap
        /\ th[t].pc = "index"
        /\ th[t].tile_group_offset >= 1
        /\ th[t].tuple_slot # INVALID_OID

\* a tuple with NULL in a column that does not allow NULL
NullViolation(tuple) ==
    \E c \in 1..ColumnCount : tuple[c] = NULL /\ ~AllowNull[c]

\* the step in which a call is made
CallMade == ncalls' = ncalls + 1

\* the call made in this step left by a ConstraintException
CallThrew(op) ==
    /\ last_call'.op = op
    /\ last_call'.status = "ConstraintException"
    /\ th' = th

\* the call made in this step entered the slot loop on thread t
CallEntered(t, op) ==
    /\ ~Running(t)
    /\ th'[t].pc = "last"
    /\ th'[t].op = op

\* C8: insert_tuple on a tuple with NULL in a non-nullable column fails with
\* ConstraintViolation before anything is changed: no slot is claimed, no
\* tile group is added, no index gets an entry, and approx_tuple_count and
\* exact_tuple_count are unchanged.
C8_ConstraintViolationChangesNothing ==
    [][CallMade =>
          \/ \E t \in Threads :
                CallEntered(t, "InsertTuple") /\ ~NullViolation(th'[t].tuple)
          \/ /\ CallThrew("InsertTuple")
             /\ NullViolation(last_call'.tuple)
             /\ last_call'.location = INVALID_ITEMPOINTER
             /\ UNCHANGED <<tile_groups, next_oid, locator, heap, indexes, layout, clustering,
                            number_of_tuples, tuple_count_exact, returned, th>>]_vars

\* C8 witness: an insert_tuple call has failed on a table that holds a row,
\* while another call runs.
C8_Witness ==
    /\ last_call.op = "InsertTuple"
    /\ last_call.status = "ConstraintException"
    /\ NullViolation(last_call.tuple)
    /\ Len(returned) >= 1
    /\ \E t \in Threads : Running(t)

\* C9 as stated: insert_empty_version and insert_version both skip the
\* constraint checks: neither raises ConstraintViolation and a tuple with
\* NULL in a non-nullable column gets a slot from each.
C9_BothSkipChecks ==
    [][CallMade =>
          ~CallThrew("InsertVersion") /\ ~CallThrew("InsertEmptyVersion")]_vars

\* the step in which a call is made: insert_empty_version enters the slot
\* loop with any tuple; insert_version and insert_tuple enter it with a tuple
\* that satisfies the constraints and otherwise throw and change no tile group
C9_Step ==
    CallMade =>
        \/ \E t \in Threads : CallEntered(t, "InsertEmptyVersion")
        \/ \E t \in Threads, op \in {"InsertVersion", "InsertTuple"} :
              CallEntered(t, op) /\ ~NullViolation(th'[t].tuple)
        \/ \E op \in {"InsertVersion", "InsertTuple"} :
              /\ CallThrew(op)
              /\ NullViolation(last_call'.tuple)
              /\ UNCHANGED <<tile_groups, next_oid, locator, heap, th>>

\* the step in which insert_empty_version returns: the location it returns
\* holds its tuple
C9_Return ==
    \A t \in Threads :
        (th[t].op = "InsertEmptyVersion" /\ Running(t) /\ ~Running(t)') =>
            /\ last_call'.status = "ok"
            /\ last_call'.tuple = th[t].tuple
            /\ last_call'.location[1] \in DOMAIN locator
            /\ Row(heap[locator[last_call'.location[1]]], last_call'.location[2])
                   = th[t].tuple

\* C9 amended: insert_empty_version skips the constraint checks: a tuple with
\* NULL in a non-nullable column is accepted, gets a slot, and no
\* ConstraintViolation is raised. insert_version checks the constraints as
\* insert_tuple does: for such a tuple it raises ConstraintViolation and
\* claims no slot.
C9_OnlyEmptyVersionSkipsChecks == [][C9_Step /\ C9_Return]_vars

\* C9 witness: insert_empty_version has returned a slot for a tuple with NULL
\* in the non-nullable column.
C9_Witness ==
    /\ last_call.op = "InsertEmptyVersion"
    /\ last_call.status = "ok"
    /\ NullViolation(last_call.tuple)
    /\ last_call.location[1] \in DOMAIN locator

\* the index pass of a version call on thread t: the secondary indexes get
\* the entry of the claimed location, the others are unchanged
C10_IndexPass(t) ==
    \A i \in 1..IndexCount :
        IF IndexTypes[i] = INDEX_CONSTRAINT_TYPE_DEFAULT
        THEN indexes'[i] = indexes[i] \cup
                 {<<KeyOf(th[t].tuple, IndexedColumns[i]),
                    <<th[t].tile_group_id, th[t].tuple_slot>>>>}
        ELSE indexes'[i] = indexes[i]

\* C10: insert_empty_version and insert_version add the new ItemPointer to
\* every index that is neither primary-key nor unique, and leave every
\* primary-key and unique index unchanged.
C10_VersionsTouchSecondaryOnly ==
    [][\A t \in Threads :
          (th[t].op \in {"InsertVersion", "InsertEmptyVersion"} /\ th'[t] # th[t])
          => /\ th[t].pc = "index" => C10_IndexPass(t)
             /\ th[t].pc # "index" => indexes' = indexes
             /\ ~Running(t)' =>
                    /\ last_call'.location = <<th[t].tile_group_id, th[t].tuple_slot>>
                    /\ \A i \in 1..IndexCount :
                           IndexTypes[i] = INDEX_CONSTRAINT_TYPE_DEFAULT
                           => <<KeyOf(th[t].tuple, IndexedColumns[i]),
                                last_call'.location>> \in indexes'[i]]_vars

\* C10 witness: an insert_version call has returned; its pointer is in the
\* secondary index and in neither the primary-key nor the unique index.
C10_Witness ==
    /\ last_call.op = "InsertVersion"
    /\ last_call.status = "ok"
    /\ \E e \in indexes[3] : e[2] = last_call.location
    /\ \A e \in indexes[1] \cup indexes[2] : e[2] # last_call.location

\* the slot of a location is claimed in the tile group the catalog holds
SlotClaimed(location) ==
    /\ location[1] \in DOMAIN locator
    /\ location[2] \in 0..(heap[locator[location[1]]].next_tuple_slot - 1)

C12_RefusalReturnsInvalid ==
    [][\A t \in Threads :
          (th[t].op = "InsertTuple" /\ th[t].status = FALSE
           /\ Running(t) /\ ~Running(t)')
          => /\ last_call'.location = INVALID_ITEMPOINTER
             /\ SlotClaimed(Location(t))']_vars

\* C13 as stated: when concurrent insert_tuple calls have all returned,
\* exact_tuple_count equals the number of calls that returned a valid
\* ItemPointer.
C13_NoLostIncrement ==
    Quiescent => tuple_count_exact = Len(returned)

\* the tuples that pass the constraint checks
ValidTuples == {tuple \in Tuples : CheckNulls(tuple)}

\* the tile group object the catalog holds under the id of a location
Resolve(location) == heap[locator[location[1]]]

\* the number of columns whose position in the tile group differs from their
\* position in default_partition
DifferingColumns(tg) ==
    Cardinality({c \in 1..ColumnCount : tg.column_map[c] # default_partition[c]})

\* the step in which a TransformTileGroup call registers its tile group
Publishes == tr.pc = "publish" /\ tr'.pc = "idle"

\* C14: after a transform_tile_group that performs a transformation, with no
\* concurrent writer, the catalog maps the same tile_group_id to a new tile
\* group laid out by default_partition whose next_slot equals the old one's
\* and in which every slot and column reads as in the old one; repeated
\* transformations keep the rows the inserts wrote.
C14_TransformKeepsContent ==
    /\ [][Publishes =>
             LET old == heap[tr.tile_group]
                 new == heap'[locator'[tr.tile_group_id]]
             IN /\ tile_groups' = tile_groups
                /\ DOMAIN locator' = DOMAIN locator
                /\ tr'.result = locator'[tr.tile_group_id]
                /\ tr'.result # tr.tile_group
                /\ new.tile_group_id = tr.tile_group_id
                /\ new.column_map = default_partition
                /\ new.num_tuple_slots = old.num_tuple_slots
                /\ new.next_tuple_slot = old.next_tuple_slot
                /\ \A slot \in 0..(old.num_tuple_slots - 1) :
                       /\ \A c \in 1..ColumnCount :
                              GetValue(new, slot, c) = GetValue(old, slot, c)
                       /\ new.txn_id[slot] = old.txn_id[slot]
                       /\ new.begin_cid[slot] = old.begin_cid[slot]]_vars
    /\ [](\A k \in 1..Len(returned) :
             /\ SlotClaimed(returned[k])
             /\ Row(Resolve(returned[k]), returned[k][2]) \in ValidTuples)

\* C14 witness: a tile group that holds a row has been transformed to a
\* layout that differs from the one it was created with.
C14_Witness ==
    /\ tr.pc = "idle"
    /\ tr.result \notin {INVALID_OID, NULLPTR}
    /\ heap[tr.result].next_tuple_slot >= 1
    /\ heap[tr.result].column_map # GetTileGroupLayout(peloton_layout_mode)
    /\ tr.result = locator[heap[tr.result].tile_group_id]

\* C15 as stated: for every ItemPointer p returned by insert_tuple(t), also
\* when a transform_tile_group of p's tile group ran concurrently with the
\* insert, resolving p through the catalog yields a tile group in which p's
\* slot is claimed and holds the values of t.
C15_PointerSurvivesTransform ==
    /\ \A k \in 1..Len(returned) :
           /\ SlotClaimed(returned[k])
           /\ Row(Resolve(returned[k]), returned[k][2]) \in ValidTuples
    /\ (last_call.status = "ok") =>
           Row(Resolve(last_call.location), last_call.location[2]) = last_call.tuple

\* the steps of a transform_tile_group call up to the threshold test change
\* neither tile_groups nor the catalog nor any tile group
C16_NoChangeBeforeThreshold ==
    (tr.pc \in {"idle", "get", "diff"} /\ tr' # tr) =>
        UNCHANGED <<tile_groups, locator, heap, default_partition>>

\* the entry of a call with an offset that is no position of tile_groups
\* returns null
C16_InvalidOffset ==
    (tr.pc = "idle" /\ tr' # tr /\ tr'.tile_group_offset >= Len(tile_groups)) =>
        tr'.pc = "idle" /\ tr'.result = NULLPTR

\* the threshold test returns null when the difference is below theta
C16_BelowTheta ==
    (/\ tr.pc = "diff"
     /\ tr' # tr
     /\ 2 * DifferingColumns(heap[locator[tile_groups[tr.tile_group_offset + 1]]])
            < tr.theta)
    => tr'.pc = "idle" /\ tr'.result = NULLPTR

\* C16: transform_tile_group(offset, theta) returns null and changes nothing
\* (catalog entry, tile group contents, tile_groups) when the schema
\* difference of the tile group against default_partition is below theta,
\* and also when offset is not a valid position in tile_groups.
C16_NullChangesNothing ==
    [][C16_NoChangeBeforeThreshold /\ C16_InvalidOffset /\ C16_BelowTheta]_vars

\* C16 witness: a call with theta = 1.0 has returned null on a tile group in
\* which half of the columns differ from default_partition.
C16_Witness ==
    /\ tr.pc = "idle"
    /\ up.pc = "idle"
    /\ tr.result = NULLPTR
    /\ tr.theta = ThetaOne
    /\ tr.tile_group_offset < Len(tile_groups)
    /\ DifferingColumns(heap[locator[tile_groups[tr.tile_group_offset + 1]]]) = 1
    /\ heap[locator[tile_groups[tr.tile_group_offset + 1]]].next_tuple_slot >= 1

\* C17 as stated: transform_tile_group with theta = 1.0 always returns null,
\* also when every column's position differs from default_partition.
C17_ThetaOneReturnsNull ==
    (tr.pc = "idle" /\ tr.theta = ThetaOne /\ tr.result # INVALID_OID)
        => tr.result = NULLPTR

\* C17 amended: transform_tile_group with theta = 1.0 returns null for every
\* tile group in which at least one column has its position of
\* default_partition, and for an offset that is no position of tile_groups;
\* when every column's position differs (d = 1.0) it transforms the tile group.
C17_ThetaOneTransformsFullDifference ==
    [][/\ (tr.pc = "diff" /\ tr' # tr /\ tr.theta = ThetaOne) =>
              IF DifferingColumns(heap[tr.tile_group]) = ColumnCount
              THEN tr'.pc = "schema"
              ELSE tr'.pc = "idle" /\ tr'.result = NULLPTR
       /\ (Publishes /\ tr.theta = ThetaOne) =>
              /\ tr'.result = tr.new_tile_group
              /\ \A c \in 1..ColumnCount :
                     heap[tr.tile_group].column_map[c]
                         # heap[tr.new_tile_group].column_map[c]
       /\ (C16_InvalidOffset)]_vars

\* C17 witness: a call with theta = 1.0 has transformed a tile group.
C17_Witness ==
    /\ tr.pc = "idle"
    /\ tr.theta = ThetaOne
    /\ tr.result \notin {INVALID_OID, NULLPTR}
    /\ locator[heap[tr.result].tile_group_id] = tr.result

\* the tile group objects the catalog holds
Published == {locator[id] : id \in DOMAIN locator}

\* C18: transform_tile_group publishes by one atomic replacement: a reader
\* that resolves the tile_group_id through the catalog gets the old tile group
\* or the new one with all cells and the header already copied, never a
\* partially copied one, and the transformation does not modify the old tile
\* group.
C18_AtomicPublish ==
    /\ [](tr.pc \in {"copy", "header", "publish"} =>
              /\ tr.new_tile_group \notin Published
              /\ locator[tr.tile_group_id] # tr.new_tile_group)
    /\ [][/\ tr' # tr =>
                \A h \in Published \cup ({tr.tile_group} \ {INVALID_OID}) :
                    heap'[h] = heap[h]
          /\ \A id \in DOMAIN locator :
                locator'[id] # locator[id] =>
                    /\ Publishes
                    /\ id = tr.tile_group_id
                    /\ locator'[id] = tr.new_tile_group
                    /\ heap'[tr.new_tile_group] = heap[tr.new_tile_group]
                    /\ \A c \in 1..ColumnCount :
                           LocateTileAndColumn(heap[tr.new_tile_group], c)
                               \in DOMAIN heap[tr.new_tile_group].tiles]_vars

\* C18 witness: the transformation has copied the first column to a tile group
\* of another layout while an insert_tuple call runs.
C18_Witness ==
    /\ tr.pc = "copy"
    /\ tr.column_itr = 2
    /\ heap[tr.new_tile_group].column_map # heap[tr.tile_group].column_map
    /\ heap[tr.tile_group].next_tuple_slot >= 1
    /\ \E t \in Threads : Running(t)

\* a column map that gives every column of the table a position of its own
IsBijection(m) ==
    /\ DOMAIN m = 1..ColumnCount
    /\ \A c, d \in DOMAIN m : c # d => m[c] # m[d]

\* C19 as stated: default_partition is a bijection over the table's columns
\* initially, after every update_default_partition, and in every state a
\* transform_tile_group call observes while update_default_partition runs.
C19_DefaultPartitionBijection ==
    (up.pc = "idle" \/ tr.pc \in {"diff", "schema", "alloc"})
        => IsBijection(default_partition)

\* the slot a stored sample pointer addresses is a claimed slot of a tile
\* group of the table
SampleAddressesRow(pointer) ==
    /\ pointer[1] + 1 \in 1..Len(tile_groups)
    /\ pointer[2] < TileGroupAt(pointer[1] + 1).next_tuple_slot

\* the stored sample pointer of a location insert_tuple returned
SamplePointerOf(location) ==
    <<(CHOOSE i \in 1..Len(tile_groups) : tile_groups[i] = location[1]) - 1,
      location[2]>>

\* C20 as stated: sample_rows(n) with n >= exact_tuple_count returns
\* exact_tuple_count and the stored sample contains every inserted row exactly
\* once: it is exactly the pointers (r div tuples_per_tilegroup, r mod
\* tuples_per_tilegroup) for r in 0..exact_tuple_count-1, each addressing a
\* claimed slot of an existing tile group.
C20_FullSampleHasEveryRow ==
    [][(/\ last_sample' # last_sample
        /\ Quiescent
        /\ last_sample'.sample_size >= tuple_count_exact)
       => /\ last_sample'.result = tuple_count_exact
          /\ Len(samples_for_optimizer') = tuple_count_exact
          /\ \A r \in 0..(tuple_count_exact - 1) :
                 samples_for_optimizer'[r + 1] = RowPointer(r)
          /\ \A k \in 1..Len(samples_for_optimizer') :
                 SampleAddressesRow(samples_for_optimizer'[k])
          /\ \A k \in 1..Len(returned) :
                 Cardinality({j \in 1..Len(samples_for_optimizer') :
                     samples_for_optimizer'[j] = SamplePointerOf(returned[k])})
                   = 1]_vars

\* the step in which a SampleRows call starts
SampleStarts == sm.pc = "idle" /\ sm'.op = "SampleRows" /\ noptimizer' # noptimizer

\* the step in which a SampleRows call returns
SampleReturns == sm.op = "SampleRows" /\ sm.pc = "store" /\ sm'.pc = "idle"

\* the stored sample is strictly ascending in row id
SampleAscending(sample) ==
    \A k \in 1..(Len(sample) - 1) : RowIdOf(sample[k]) < RowIdOf(sample[k + 1])

\* C21: after any sequence of sample_rows calls the stored sample holds only
\* the pointers of the latest call: it is strictly ascending in row id, its
\* size is at most the requested n and equals the value the call returned,
\* and no pointer of an earlier call remains unless it was drawn again.
C21_SampleIsLatestCall ==
    /\ [][/\ SampleStarts => samples_for_optimizer' = <<>> /\ sm'.row_id_set \subseteq
                                 0..(tuple_count_exact - 1)
          /\ SampleReturns =>
                /\ {RowIdOf(samples_for_optimizer'[k]) :
                        k \in 1..Len(samples_for_optimizer')} = sm.row_id_set
                /\ Len(samples_for_optimizer') = Cardinality(sm.row_id_set)
                /\ \A k \in 1..Len(samples_for_optimizer') :
                       samples_for_optimizer'[k]
                           = RowPointer(RowIdOf(samples_for_optimizer'[k]))
                /\ sm'.result = Len(samples_for_optimizer')]_vars
    /\ []((sm.pc = "idle" /\ last_sample.result # INVALID_OID) =>
              /\ SampleAscending(samples_for_optimizer)
              /\ Len(samples_for_optimizer) <= last_sample.sample_size
              /\ Len(samples_for_optimizer) = last_sample.result)

\* C21 witness: after a sample, its materialization and rows inserted, a
\* second sample_rows call has returned a sample that is a part of the table.
C21_Witness ==
    /\ sm.pc = "idle"
    /\ sm.op = "SampleRows"
    /\ sampled_tile_group_id # INVALID_OID
    /\ last_sample.total_tuple_number = 2
    /\ last_sample.sample_size = 1
    /\ samples_for_optimizer = <<RowPointer(1)>>

\* C22: sample_rows(n) always terminates and releases sample_mutex: when
\* n < exact_tuple_count it makes at most 10 rounds of at most n draws each,
\* whatever the visibility predicate answers, and then returns the size of
\* the set collected so far, which may be less than n.
C22_SampleTerminates ==
    /\ [](sm.op = "SampleRows" =>
             /\ sm.iter_count <= MaxRounds
             /\ sm.pc = "draw" =>
                   /\ sm.iter_count < MaxRounds
                   /\ sm.i < sm.sample_size
                   /\ sm.sample_size < sm.total_tuple_number)
    /\ [][SampleReturns =>
             /\ sm'.result = Cardinality(sm.row_id_set)
             /\ sm'.result <= sm.sample_size
             /\ sample_mutex /\ ~sample_mutex']_vars
    /\ (sm.op = "SampleRows" /\ sm.pc # "idle")
           ~> (sm.op = "SampleRows" /\ sm.pc = "idle" /\ ~sample_mutex)

\* C22 witness: a sample_rows call has returned after the tenth round with
\* no row collected, every answer of the visibility predicate negative.
C22_Witness ==
    /\ sm.op = "SampleRows"
    /\ sm.pc = "idle"
    /\ ~sample_mutex
    /\ sm.iter_count = MaxRounds
    /\ sm.sample_size >= 1
    /\ sm.result = 0

\* C23 as stated: for each random draw row_id in sample_rows the visibility
\* predicate is consulted with the header of tile group row_id /
\* tuples_per_tile_group and the slot row_id % tuples_per_tile_group, a slot
\* below the tile group's capacity.
C23_VisibilityConsultedWithSlot ==
    (sm.op = "SampleRows" /\ sm.tuple_id # INVALID_OID) =>
        /\ sm.tile_group_offset = sm.random_row_id \div TuplesPerTilegroup
        /\ sm.tuple_id = sm.random_row_id % TuplesPerTilegroup
        /\ sm.tuple_id <
               GetAllocatedTupleCount(heap[GetTileGroup(sm.tile_group_offset)])

\* C24 as stated: in every state in which sample_mutex is not held,
\* sampled_tile_group_id is INVALID_OID or an id registered in the catalog,
\* after any sequence of sample_rows and materialize_sample calls.
C24_SampleTileGroupRegistered ==
    ~sample_mutex =>
        \/ sampled_tile_group_id = INVALID_OID
        \/ sampled_tile_group_id \in DOMAIN locator

\* the values of a column over the claimed slots of the table's tile groups
ColumnValues(c) ==
    {GetValue(TileGroupAt(i), slot, c) :
        <<i, slot>> \in {x \in (1..Len(tile_groups)) \X (0..(TuplesPerTilegroup - 1)) :
                            x[2] < TileGroupAt(x[1]).next_tuple_slot}}

\* the smaller of two numbers
Min(a, b) == IF a <= b THEN a ELSE b

\* the step in which ComputeTableCardinality stores a count for a column
ComputeStores(c) ==
    /\ sm.pc = "idle"
    /\ noptimizer' # noptimizer
    /\ sm' = [NoSampler EXCEPT !.op = "ComputeTableCardinality", !.column = c]
    /\ c \in DOMAIN inline_column_map

\* C25 as stated: after sample_rows, materialize_sample and
\* compute_cardinality on a sampled column c, cardinality_map[c] is at most
\* min(sample_size, number of distinct values of c in the table), and equals
\* the number of distinct values of c when sample_size = exact_tuple_count.
C25_CardinalityOfSample ==
    [][\A c \in DOMAIN inline_column_map :
          ComputeStores(c) =>
              LET count == cardinality_map'[inline_column_map[c]]
              IN /\ count <= Min(GetOptimizerSampleSize,
                                 Cardinality(ColumnValues(c)))
                 /\ GetOptimizerSampleSize = tuple_count_exact =>
                        count = Cardinality(ColumnValues(c))]_vars

\* C26: get_table_cardinality(c) returns 0 when column c is not sampled
\* (VARCHAR, VARBINARY or no column of the table) or its cardinality has not
\* been computed since the last sample_rows; compute_table_cardinality on a
\* column that is not sampled changes no state.
C26_UnsampledCardinalityIsZero ==
    /\ [](\A c \in CardinalityColumns :
             (c > ColumnCount
                 \/ ColumnTypes[c] \in {VALUE_TYPE_VARCHAR, VALUE_TYPE_VARBINARY})
             => TableCardinality(c) = 0)
    /\ [][/\ SampleStarts => \A c \in CardinalityColumns : TableCardinality(c)' = 0
          /\ \A c \in CardinalityColumns :
                (TableCardinality(c) = 0 /\ ~ComputeStores(c))
                    => TableCardinality(c)' = 0
          /\ (sm'.op = "GetTableCardinality" /\ noptimizer' # noptimizer) =>
                /\ sm'.result = TableCardinality(sm'.column)
                /\ UNCHANGED <<table, samples_for_optimizer, cardinality_map,
                               sampled_tile_group_id, sample_mutex>>
          /\ (/\ sm'.op = "ComputeTableCardinality"
              /\ noptimizer' # noptimizer
              /\ sm'.column \notin DOMAIN inline_column_map) =>
                /\ sm'.pc = "idle"
                /\ UNCHANGED <<table, indexes, layout, clustering, counters, samples_for_optimizer,
                               cardinality_map, sampled_tile_group_id,
                               sample_mutex, last_sample>>]_vars

\* C26 witness: with the cardinality of the inlined column computed,
\* get_table_cardinality on the VARCHAR column has returned 0.
C26_Witness ==
    /\ sm.op = "GetTableCardinality"
    /\ sm.pc = "idle"
    /\ sm.column = 2
    /\ sm.result = 0
    /\ 1 \in DOMAIN cardinality_map
    /\ cardinality_map[1] >= 1

\* a plan node of an item with its children
PlanOf(gs, id, item_index, children) ==
    [OpPlanNode(gs, id, item_index) EXCEPT !.children = children]

\* the one-node plan of a Leaf pattern on a group
LeafPlan(id) == [op |-> "Leaf", group |-> id, item |-> INVALID_OID, children |-> <<>>]

RECURSIVE Matches(_, _, _)
\* the plan trees of a group that match a pattern: a Leaf pattern matches
\* the group itself; any other pattern matches an item of its type with as
\* many children as the pattern, over matching trees of the child groups
Matches(gs, id, pattern) ==
    IF pattern.type = "Leaf" THEN {LeafPlan(id)}
    ELSE UNION {
        LET item == GetOperators(gs, id)[i + 1]
            child_groups == GetChildren(item)
        IN IF item.type # pattern.type
              \/ Len(child_groups) # Len(pattern.children) THEN {}
           ELSE IF Len(child_groups) = 0 THEN {PlanOf(gs, id, i, <<>>)}
           ELSE IF Len(child_groups) = 1
           THEN {PlanOf(gs, id, i, <<c>>) :
                    c \in Matches(gs, child_groups[1], pattern.children[1])}
           ELSE {PlanOf(gs, id, i, <<c[1], c[2]>>) :
                    c \in Matches(gs, child_groups[1], pattern.children[1])
                          \X Matches(gs, child_groups[2], pattern.children[2])}
        : i \in 0..(Len(GetOperators(gs, id)) - 1)}

\* the plans returned so far, as a set
Yielded == {yielded[k] : k \in 1..Len(yielded)}

\* C27 as stated: for any group and any pattern, of any depth, alternating
\* has_next and next until has_next is false yields each plan tree of the
\* group that matches the pattern exactly once: every yielded tree matches,
\* none is yielded twice, and at exhaustion none is missing.
C27_YieldsEachMatchOnce ==
    gbi.pc # "none" =>
        /\ Yielded \subseteq Matches(groups, gbi.group_id, gbi.pattern)
        /\ Cardinality(Yielded) = Len(yielded)
        /\ gbi.pc = "false" =>
               Yielded = Matches(groups, gbi.group_id, gbi.pattern)

\* C28 as stated: for a Leaf pattern and any group, whatever its number of
\* items, has_next returns true until next has been called once and false
\* ever after, and the one next returns LeafOperator(group_id).
C28_LeafYieldsOnePlan ==
    (gbi.pc # "none" /\ gbi.pattern = Leaf) =>
        /\ Len(yielded) <= 1
        /\ yielded \in {<<>>, <<LeafPlan(gbi.group_id)>>}
        /\ gbi.pc = "true" => yielded = <<>>
        /\ gbi.pc = "false" => Len(yielded) = 1

\* scenario S5: group 0 holds InnerJoin(1, 2), group 1 two Get items, group 2
\* three Get items, and the iterator runs on group 0
S5 ==
    /\ gbi.pc # "none"
    /\ gbi.group_id = 0
    /\ GetOperators(groups, 0) = <<LogicalInnerJoin(1, 2)>>
    /\ GetOperators(groups, 1) = Gets(2)
    /\ GetOperators(groups, 2) = Gets(3)

\* the join of S5 over two children
S5Join(outer, inner) == PlanOf(groups, 0, 0, <<outer, inner>>)

\* C29 as stated: in S5 the pattern InnerJoin(Leaf, Leaf) yields exactly six
\* plans, in the child-position order (0,0),(0,1),(0,2),(1,0),(1,1),(1,2).
C29_LeafJoinYieldsSix ==
    (S5 /\ gbi.pattern = Pattern("InnerJoin", <<Leaf, Leaf>>) /\ gbi.pc = "false") =>
        Len(yielded) = 6

\* C29, amended: in S5 with no rule registered, the pattern
\* InnerJoin(Leaf, Leaf) yields exactly one plan, the join over
\* LeafOperator(1) and LeafOperator(2); the six plans in the order
\* (0,0),(0,1),(0,2),(1,0),(1,1),(1,2) of the child items are what the
\* pattern InnerJoin(Get, Get) yields.
C29_LeafJoinYieldsOne ==
    /\ (S5 /\ gbi.pattern = Pattern("InnerJoin", <<Leaf, Leaf>>)) =>
          /\ Len(yielded) <= 1
          /\ gbi.pc = "false" =>
                yielded = <<S5Join(LeafPlan(1), LeafPlan(2))>>
    /\ (S5 /\ gbi.pattern = Pattern("InnerJoin", <<Pattern("Get", <<>>),
                                                   Pattern("Get", <<>>)>>)) =>
          /\ Len(yielded) <= 6
          /\ \A k \in 1..Len(yielded) :
                yielded[k] = S5Join(PlanOf(groups, 1, (k - 1) \div 3, <<>>),
                                    PlanOf(groups, 2, (k - 1) % 3, <<>>))
          /\ gbi.pc = "false" => Len(yielded) = 6

\* C29 witness: in S5 the iterator with pattern InnerJoin(Leaf, Leaf) is
\* exhausted after one plan.
C29_Witness ==
    /\ S5
    /\ gbi.pattern = Pattern("InnerJoin", <<Leaf, Leaf>>)
    /\ gbi.pc = "false"
    /\ Len(yielded) = 1

\* C30 as stated: across any number of GroupBindingIterator constructions,
\* nested ones included, explore_item is invoked at most once per
\* (group, item, rule), and an explored flag once set is never cleared.
C30_ExploredAtMostOnce ==
    /\ [](\A a, b \in 1..Len(explorations) :
             explorations[a] = explorations[b] => a = b)
    /\ [][\A g \in 1..Len(groups) : \A k \in 1..Len(groups[g].explored) :
             groups[g].explored[k] => groups'[g].explored[k]]_vars


\* C31: an item that exploration appends to the group while a
\* GroupBindingIterator's constructor loop runs is not explored by that
\* constructor: the item whose ExploreItem call a constructor is in was
\* already in the group when that constructor was entered
C31_AppendedItemsNotRevisited ==
    \A k \in 1..Len(ctors) :
        (~ctors[k].dangling /\ ctors[k].rule # 0)
            => ctors[k].i < ctors[k].items_at_entry

\* C32: a GroupBindingIterator yields bindings only for items that were in
\* its group when it was constructed; an item appended to the group later
\* is never visited by it
C32_YieldsOnlyItemsPresentAtConstruction ==
    gbi.pattern.type # "Leaf"
        => \A k \in 1..Len(yielded) :
               yielded[k].item < gbi.items_at_construction

\* C33: constructing a GroupBindingIterator a second time on a group makes no
\* ExploreItem call: while the client's constructor runs on a group for which
\* a client's constructor has already returned, no ExploreItem call is in
\* progress, also when rules appended items during the first construction
C33_SecondConstructionExploresNothing ==
    (ctors # <<>> /\ ctors[1].group_id \in completed)
        => \A k \in 1..Len(ctors) : ctors[k].rule = 0

\* the item the client's ItemBindingIterator was constructed on
ClientItem == GetOperators(groups, gbi.group_id)[gbi.current_item_index + 1]
\* the number of child groups of an operator of a type
ChildCount(type) ==
    IF type = "Get" THEN 0
    ELSE IF type \in {"Project", "Filter", "Aggregate", "Limit"} THEN 1
    ELSE 2
\* the bindings of the k-th child position: the child group run against the
\* k-th child pattern
ChildBindings(k) ==
    GroupBindings(groups, ClientItem.args[k], gbi.pattern.children[k])
\* n_1, ..., n_k
Sizes == [k \in 1..Len(ClientItem.args) |-> Len(ChildBindings(k))]
RECURSIVE SuffixProduct(_, _)
\* n_(k+1) * ... * n_K
SuffixProduct(n, k) ==
    IF k >= Len(n) THEN 1 ELSE n[k + 1] * SuffixProduct(n, k + 1)
\* the k-th component of the j-th position vector in lexicographic order
Position(j, k) == ((j - 1) \div SuffixProduct(Sizes, k)) % Sizes[k]
ExpectedPlan(j) ==
    [op |-> ClientItem.type, group |-> gbi.group_id,
     item |-> gbi.current_item_index,
     children |-> [k \in 1..Len(Sizes) |-> ChildBindings(k)[Position(j, k) + 1]]]
\* the item matches the pattern and every child position has a binding
Matching ==
    /\ gbi.pc \in {"ready", "true", "false"}
    /\ ClientItem.type = gbi.pattern.type
    /\ ChildCount(ClientItem.type) = Len(gbi.pattern.children)
    /\ \A k \in 1..Len(Sizes) : Sizes[k] > 0

\* C34: an ItemBindingIterator on a matching item whose k child positions
\* have n_1, ..., n_k bindings yields exactly n_1 * ... * n_k plans, the
\* j-th plan built from the j-th position vector in lexicographic order with
\* the rightmost position fastest, and then has_next stays false; with no
\* child position it yields exactly one plan
C34_YieldsProductInLexicographicOrder ==
    Matching =>
        /\ Len(yielded) <= SuffixProduct(Sizes, 0)
        /\ \A j \in 1..Len(yielded) : yielded[j] = ExpectedPlan(j)
        /\ gbi.pc = "false" =>
               /\ Len(yielded) = SuffixProduct(Sizes, 0)
               /\ ~gbi.current_iterator.has_next
               /\ ~ItemHasNext(gbi.current_iterator).ret
C34_Witness ==
    /\ Matching
    /\ gbi.pc = "false"
    /\ Len(Sizes) = 2
    /\ Sizes[1] >= 2
    /\ Sizes[2] >= 2
    /\ Len(yielded) = Sizes[1] * Sizes[2]

\* some child position of the client's item has no binding
SomeChildEmpty == \E k \in 1..Len(Sizes) : Sizes[k] = 0

\* C35: an ItemBindingIterator yields nothing when the item's operator type
\* differs from the pattern's type, when the item's number of child groups
\* (0 for Get, 1 for Project, Filter, Aggregate and Limit, 2 for the joins)
\* differs from the pattern's number of child patterns, or when some child
\* group yields no binding for its child pattern
C35_MismatchYieldsNothing ==
    (/\ gbi.pc # "none"
     /\ \/ ClientItem.type # gbi.pattern.type
        \/ ChildCount(ClientItem.type) # Len(gbi.pattern.children)
        \/ SomeChildEmpty)
        => (yielded = <<>> /\ gbi.pc # "true")
C35_Witness ==
    /\ gbi.pc = "false"
    /\ ClientItem.type = gbi.pattern.type
    /\ ChildCount(ClientItem.type) = Len(gbi.pattern.children)
    /\ Len(Sizes) = 2
    /\ Sizes[1] > 0
    /\ Sizes[2] = 0

\* the tile of a sample tile group that holds the sample column of column c
SampleTile(tg, c) == tg.tiles[<<inline_column_map[c] - 1, 0>>]

\* a tile group is the materialization of the stored sample: one tile of one
\* column per inlined column, capacity and next slot equal to the sample
\* size, and row i of the sample column of column c holding column c of the
\* row at the i-th stored pointer
MaterializesSample(tg) ==
    /\ DOMAIN tg.tiles = {<<inline_column_map[c] - 1, 0>> : c \in DOMAIN inline_column_map}
    /\ Cardinality(DOMAIN tg.tiles) = Cardinality(DOMAIN inline_column_map)
    /\ tg.num_tuple_slots = Len(samples_for_optimizer)
    /\ tg.next_tuple_slot = Len(samples_for_optimizer)
    /\ \A i \in 1..Len(samples_for_optimizer), c \in DOMAIN inline_column_map :
           SampleTile(tg, c)[i - 1] =
               GetValue(TileGroupAt(samples_for_optimizer[i][1] + 1),
                        samples_for_optimizer[i][2], c)

\* the step in which MaterializeSample builds, registers and fills the sample
\* tile group
Materializes == sm.op = "MaterializeSample" /\ sm.pc = "build" /\ sm'.pc = "idle"

\* the sample tile groups built before the registered one
EarlierSampleTileGroups ==
    {h \in 1..Len(heap) :
        /\ heap[h].tile_group_id \notin {tile_groups[i] : i \in 1..Len(tile_groups)}
        /\ heap[h].tile_group_id # sampled_tile_group_id}

\* C36: after sample_rows and materialize_sample the sample tile group has
\* one single-column tile per inlined column, capacity and next slot equal
\* to the sample size, and row i of the sample column of column c holds
\* column c of the row at the i-th sampled pointer; materializing again
\* gives a new, registered tile group with the same contents
C36_SampleTileGroupHoldsSample ==
    /\ [][Materializes =>
             /\ sampled_tile_group_id' # sampled_tile_group_id
             /\ sampled_tile_group_id' \notin DOMAIN locator
             /\ \A h \in 1..Len(heap) :
                    heap[h].tile_group_id # sampled_tile_group_id'
             /\ sampled_tile_group_id' \in DOMAIN locator'
             /\ MaterializesSample(heap'[locator'[sampled_tile_group_id']])]_vars
    /\ []((sm.pc = "idle" /\ sampled_tile_group_id \in DOMAIN locator) =>
              MaterializesSample(heap[locator[sampled_tile_group_id]]))
C36_Witness ==
    /\ sm.pc = "idle"
    /\ sm.op = "MaterializeSample"
    /\ sampled_tile_group_id \in DOMAIN locator
    /\ Len(samples_for_optimizer) = 2
    /\ \E h \in EarlierSampleTileGroups :
           /\ heap[h].num_tuple_slots = 2
           /\ heap[h].tiles = heap[locator[sampled_tile_group_id]].tiles
           /\ SampleTile(heap[h], 1)[0] # SampleTile(heap[h], 1)[1]

\* a column map sends each of the columns 0..column_count-1 to a position
\* and no two of them to the same position
ValidColumnMap(column_map, column_count) ==
    /\ DOMAIN column_map = 0..(column_count - 1)
    /\ \A c, d \in DOMAIN column_map : column_map[c] = column_map[d] => c = d

\* the calls the statement is about
LayoutCovered ==
    \/ layout.adapt_table = FALSE
    \/ layout.layout_type \in {LAYOUT_ROW, LAYOUT_COLUMN}
    \/ layout.column_count < 10
    \/ layout.table_name = "USERTABLE"
    \/ layout.table_name = "HYADAPTTABLE" /\ layout.peloton_num_groups > 0

\* C37: the column map computed for a new tile group is valid for every
\* layout type and column count (ROW, COLUMN, HYBRID with fewer than 10
\* columns, the static HYBRID maps of USERTABLE and of HYADAPTTABLE with
\* peloton_num_groups > 0 and hyadapt_column_ids a permutation of
\* 1..column_count-1): each column appears exactly once and no two columns
\* are sent to the same (tile, column) pair
C37_ColumnMapValid ==
    (layout.pc = "done" /\ LayoutCovered)
        => ValidColumnMap(layout.column_map, layout.column_count)

\* the number of times a sample was fed to a clusterer
TimesFed(sample) ==
    Cardinality({n \in 1..Len(clustering.fed) : clustering.fed[n][1] = sample})
\* the number of entries of the buffer that are the sample
TimesBuffered(sample) ==
    Cardinality({n \in 1..Len(clustering.samples) : clustering.samples[n] = sample})
\* the step in which an update that found samples releases clustering_mutex
UpdateReleases(t) ==
    /\ clustering.calls[t].pc = "unlock"
    /\ clustering.calls[t].found > 0
    /\ clustering'.calls[t].pc # "unlock"
\* a step of an update that found the buffer empty
UpdateFoundEmpty(t) ==
    /\ clustering.calls[t].pc = "empty"
    /\ clustering.samples = <<>>
    /\ clustering'.calls[t] # clustering.calls[t]

\* C38: under any interleaving of record_sample and update_default_partition
\* every recorded sample is fed to a clusterer by exactly one update call
\* (never twice, and once it has left the buffer exactly once), the buffer is
\* empty whenever an update that found samples releases clustering_mutex,
\* and an update that finds the buffer empty leaves default_partition
\* unchanged
C38_SamplesFedOnce ==
    /\ [](\A sample \in 1..clustering.recorded :
             /\ TimesFed(sample) <= 1
             /\ clustering.mutex = 0 =>
                    TimesFed(sample) + TimesBuffered(sample) = 1)
    /\ [][\A t \in Threads :
             /\ UpdateReleases(t) =>
                    clustering.samples = <<>> /\ clustering'.samples = <<>>
             /\ UpdateFoundEmpty(t) =>
                    /\ default_partition' = default_partition
                    /\ clustering'.calls[t].pc = "idle"
             /\ (clustering.calls[t].pc = "assign") =>
                    clustering.calls[t].found > 0]_vars
C38_Witness ==
    /\ clustering.recorded = 2
    /\ clustering.mutex = 0
    /\ clustering.samples = <<2>>
    /\ clustering.fed = <<(<<1, 2>>)>>
    /\ \E t \in Threads : clustering.calls[t].pc = "assign"

Held(k) == ItemNext(gbi.current_iterator)

\* C40: a plan returned by ItemBindingIterator.next() is stable: later
\* has_next() and next() calls on the iterator do not change its children,
\* two plans returned for different combinations are different trees, and a
\* child binding collected from a child pattern that is not Leaf still has
\* its own children after the child iterator was exhausted
C40_ReturnedPlanStable ==
    gbi.pc \in {"ready", "true", "false"} =>
        /\ \A k \in 1..Len(yielded) : Held(k) = yielded[k]
        /\ \A j, k \in 1..Len(yielded) :
               yielded[j] # yielded[k] => Held(j) # Held(k)
        /\ \A k \in 1..Len(gbi.current_iterator.children_bindings) :
               \A n \in 1..Len(gbi.current_iterator.children_bindings[k]) :
                   Len(gbi.current_iterator.children_bindings[k][n].children)
                       = Len(gbi.pattern.children[k].children)

====
